---- MODULE Spec2Model ----
(***************************************************************************)
(* The ION system heap (drivers/staging/android/ion/ion_system_heap.c):    *)
(* order-based page acquisition with per-order, per-cache-mode page pools, *)
(* the pool refill workers and the shrinker.  Page frames are numbered     *)
(* 0..NFrames-1; a page of order k covers 2^k contiguous frames and is     *)
(* named by its first frame.                                               *)
(***************************************************************************)
EXTENDS Integers, Sequences, FiniteSets, TLC

\* ------------------------------------------------------------ constants

PAGE_SIZE == 4096

orders == <<4, 0>>

NUM_ORDERS == Len(orders)

ION_PRIV_FLAG_SHRINKER_FREE == 1

EINVAL == 22

ENOMEM == 12

\* low watermark of a pool (the design fixes it at 1)
LowMark == 1

\* the system page source starts with NBig free blocks of the largest order
\* (frames 0 .. 16*NBig-1) and NSmall free single frames above them
NBig == 1

NSmall == 1

\* totalram_pages(): frames of the whole machine, most of them not available
TotalRam == 34

\* number of buffers that can be live at once
NBufs == 2

\* largest nr_to_scan the shrinker is called with
MaxScan == 2

Bufs == 1 .. NBufs

\* number of page frames the system page source starts with
NFrames == 16 * NBig + NSmall

FrameSet == 0 .. (NFrames - 1)

HalfRam == TotalRam \div 2

\* request sizes in bytes: within one page, a superpage and a byte (17 pages),
\* and around half of the machine's memory
SizeChoices ==
    { 1, 16 * PAGE_SIZE + 1,
      HalfRam * PAGE_SIZE, HalfRam * PAGE_SIZE + 1, (HalfRam + 1) * PAGE_SIZE }

\* values of the max_page_pool_size module parameter
CeilingChoices == { 0, 2 }

\* buffer flags: ION_FLAG_CACHED, ION_FLAG_NOZEROED, ION_FLAG_SYNC_FORCE
AllFlagChoices ==
    [cached : BOOLEAN, nozeroed : BOOLEAN, sync_force : BOOLEAN]

\* the flags of the callers of the basic specification: zeroed buffers of
\* either cache mode, cache-mode forcing on cached buffers
FlagChoices ==
    { fl \in AllFlagChoices : ~fl.nozeroed /\ (fl.sync_force => fl.cached) }

\* outcome of building the scatter table: kmalloc and sg_alloc_table
TableChoices == { "ok", "kmalloc_fails", "sg_alloc_table_fails" }

\* the calls of allocate: every size, flag set and table outcome with an
\* alignment of one page, and calls with an alignment above one page
Requests ==
    [size : SizeChoices, align : {PAGE_SIZE}, fl : FlagChoices,
     table : TableChoices]
    \cup
    [size : {1, HalfRam * PAGE_SIZE + 1}, align : {PAGE_SIZE + 1},
     fl : { f \in FlagChoices : ~f.sync_force }, table : {"ok"}]

VARIABLES
    buddy,              \* frames free in the system allocator
    uncached_pools,     \* sys_heap->uncached_pools[i]
    cached_pools,       \* sys_heap->cached_pools[i]
    kworker,            \* kworker[c]: wake pending for the worker of mode c
    buffers,            \* the buffers of the callers
    max_page_pool_size, \* module parameter
    pool_auto_refill_en,\* CONFIG_ION_POOL_AUTO_REFILL
    last,               \* the last completed call and what it returned
    scen,               \* releases completed by a run that, from the start, only
                        \* allocates and releases one single-page uncached
                        \* buffer after the other; -1 once the run did otherwise
    inflight,           \* inflight[b]: the locals of the call that is running
                        \* on buffer b, when calls run interleaved
    lone_pool,          \* a page pool used on its own
    held,               \* the page taken from that pool and not yet put back
    flushed,            \* the pages on which the last call of allocate or
                        \* release did cache maintenance
    ctx,                \* ctx[x]: where execution context x stands in a pool
                        \* operation, and the pool locks it holds
    task,               \* task[c]: the kernel thread heap->kworker[c]
    life,               \* what ion_system_heap_create returned, whether the
                        \* pools exist and system_heap is set
    made,               \* the pool slots of a heap under construction, the
                        \* pool objects that exist, and the last call on them
    client              \* the handles of one ion client, and the last ioctl

vars ==
    << buddy, uncached_pools, cached_pools, kworker, buffers,
       max_page_pool_size, pool_auto_refill_en, last, scen,
       inflight, lone_pool, held, ctx, flushed, task, life, made, client >>

\* the variables that the whole-call actions leave alone
aside == << inflight, lone_pool, held, ctx, task, life, made, client >>

\* ------------------------------------------------------------ helpers

RECURSIVE Shl1(_)
\* 1 << k
Shl1(k) == IF k = 0 THEN 1 ELSE 2 * Shl1(k - 1)

PAGE_ALIGN(size) == ((size + PAGE_SIZE - 1) \div PAGE_SIZE) * PAGE_SIZE

order_to_size(order) == PAGE_SIZE * Shl1(order)

\* index of an order in the orders table; 0 stands for BUG()
order_to_index(order) ==
    IF \E i \in 1 .. NUM_ORDERS : orders[i] = order
    THEN CHOOSE i \in 1 .. NUM_ORDERS :
             orders[i] = order /\ \A j \in 1 .. (i - 1) : orders[j] # order
    ELSE 0

NULL == [addr |-> -1, order |-> 0, zeroed |-> FALSE, from_buddy |-> FALSE]

PageFrames(page) == page.addr .. (page.addr + Shl1(page.order) - 1)

SetMin(S) == CHOOSE x \in S : \A y \in S : x <= y

\* ------------------------------------------------------------ system page source

\* first frames of the free blocks of an order: the low frames are handed out
\* as whole blocks of the largest order only, the frames above them one by one
FreeBlocks(free, order) ==
    IF order = 0
    THEN { a \in free : a >= 16 * NBig }
    ELSE { a \in free : /\ a < 16 * NBig
                         /\ a % Shl1(order) = 0
                         /\ \A i \in 0 .. (Shl1(order) - 1) : (a + i) \in free }

\* alloc_pages(gfp, order): a free block of the order, or NULL when there is
\* none (the system page source may fail)
alloc_pages(free, gfp_zero, order) ==
    LET c == FreeBlocks(free, order)
    IN  IF c = {} THEN [page |-> NULL, buddy |-> free]
        ELSE LET a == SetMin(c)
                 p == [addr |-> a, order |-> order, zeroed |-> gfp_zero,
                       from_buddy |-> TRUE]
             IN  [page |-> p, buddy |-> free \ PageFrames(p)]

\* __free_pages(page, order)
free_pages_to_buddy(free, page) == free \cup PageFrames(page)

\* ------------------------------------------------------------ page pool

EmptyPool(order, cached) ==
    [order |-> order, cached |-> cached,
     low_items |-> << >>, high_items |-> << >>,
     low_count |-> 0, high_count |-> 0]

ion_page_pool_total(pool, high) ==
    pool.low_count + (IF high THEN pool.high_count ELSE 0)

\* the watermark test without the test of the pool's order
pool_count_below_lowmark_any_order(pool) ==
    ion_page_pool_total(pool, TRUE) < LowMark

pool_count_below_lowmark(pool) ==
    pool.order > 0 /\ ion_page_pool_total(pool, TRUE) < LowMark

\* the pop that leaves the counts as they are
ion_page_pool_alloc_uncounted(pool, zeroed, free) ==
    IF pool.low_count > 0
    THEN [page  |-> [Head(pool.low_items) EXCEPT !.from_buddy = FALSE],
          pool  |-> [pool EXCEPT !.low_items = Tail(@)],
          buddy |-> free]
    ELSE IF pool.high_count > 0
    THEN [page  |-> [Head(pool.high_items) EXCEPT !.from_buddy = FALSE],
          pool  |-> [pool EXCEPT !.high_items = Tail(@)],
          buddy |-> free]
    ELSE [page |-> NULL, pool |-> pool, buddy |-> free]

\* pop a page (low list first, then high list); on a miss take a fresh page
\* of the pool's order from the system
ion_page_pool_alloc(pool, zeroed, free) ==
    IF pool.low_count > 0
    THEN [page  |-> [Head(pool.low_items) EXCEPT !.from_buddy = FALSE],
          pool  |-> [pool EXCEPT !.low_items = Tail(@), !.low_count = @ - 1],
          buddy |-> free]
    ELSE IF pool.high_count > 0
    THEN [page  |-> [Head(pool.high_items) EXCEPT !.from_buddy = FALSE],
          pool  |-> [pool EXCEPT !.high_items = Tail(@), !.high_count = @ - 1],
          buddy |-> free]
    ELSE LET r == alloc_pages(free, zeroed, pool.order)
         IN  [page |-> r.page, pool |-> pool, buddy |-> r.buddy]

\* push a page onto the low list
ion_page_pool_free(p, page) ==
    [p EXCEPT !.low_items = Append(@, page), !.low_count = @ + 1]

RECURSIVE ion_page_pool_refill(_, _)
\* top the pool up with zeroed system pages until it is no longer below the
\* low watermark, or the system has no page of its order
ion_page_pool_refill(pool, free) ==
    IF ~pool_count_below_lowmark(pool) THEN [pool |-> pool, buddy |-> free]
    ELSE LET r == alloc_pages(free, TRUE, pool.order)
         IN  IF r.page = NULL THEN [pool |-> pool, buddy |-> free]
             ELSE ion_page_pool_refill(
                      ion_page_pool_free(pool, [r.page EXCEPT !.from_buddy = FALSE]),
                      r.buddy)

\* ion_page_pool_add: a page is put on the high list or on the low list, by
\* the classification of its memory
ion_page_pool_add(pool, page, high) ==
    IF high
    THEN [pool EXCEPT !.high_items = Append(@, page), !.high_count = @ + 1]
    ELSE [pool EXCEPT !.low_items = Append(@, page), !.low_count = @ + 1]

RECURSIVE pool_evict_high_first(_, _, _, _)
\* the eviction that takes from the high list before the low list
pool_evict_high_first(pool, free, left, freed) ==
    IF left <= 0 THEN [pool |-> pool, buddy |-> free, freed |-> freed]
    ELSE IF pool.high_count > 0
    THEN pool_evict_high_first(
             [pool EXCEPT !.high_items = Tail(@), !.high_count = @ - 1],
             free_pages_to_buddy(free, Head(pool.high_items)),
             left - 1, freed + 1)
    ELSE IF pool.low_count > 0
    THEN pool_evict_high_first(
             [pool EXCEPT !.low_items = Tail(@), !.low_count = @ - 1],
             free_pages_to_buddy(free, Head(pool.low_items)),
             left - 1, freed + 1)
    ELSE [pool |-> pool, buddy |-> free, freed |-> freed]

RECURSIVE pool_evict(_, _, _, _)
pool_evict(pool, free, left, freed) ==
    IF left <= 0 THEN [pool |-> pool, buddy |-> free, freed |-> freed]
    ELSE IF pool.low_count > 0
    THEN pool_evict([pool EXCEPT !.low_items = Tail(@), !.low_count = @ - 1],
                    free_pages_to_buddy(free, Head(pool.low_items)),
                    left - 1, freed + 1)
    ELSE IF pool.high_count > 0
    THEN pool_evict([pool EXCEPT !.high_items = Tail(@), !.high_count = @ - 1],
                    free_pages_to_buddy(free, Head(pool.high_items)),
                    left - 1, freed + 1)
    ELSE [pool |-> pool, buddy |-> free, freed |-> freed]

\* nr_to_scan = 0 only reports the count; otherwise evict up to nr_to_scan
\* pages, low list first, and report how many were evicted
ion_page_pool_shrink(pool, free, nr_to_scan) ==
    IF nr_to_scan = 0
    THEN [pool |-> pool, buddy |-> free, freed |-> ion_page_pool_total(pool, TRUE)]
    ELSE pool_evict(pool, free, nr_to_scan, 0)

\* ------------------------------------------------------------ system heap

\* The heap's shared memory state, threaded through the operators below:
\* m = [buddy, uncached_pools, cached_pools, kworker]
HeapMem ==
    [buddy |-> buddy, uncached_pools |-> uncached_pools,
     cached_pools |-> cached_pools, kworker |-> kworker]

PoolOf(m, cached, idx) ==
    IF cached THEN m.cached_pools[idx] ELSE m.uncached_pools[idx]

SetPool(m, cached, idx, pool) ==
    IF cached THEN [m EXCEPT !.cached_pools[idx] = pool]
    ELSE [m EXCEPT !.uncached_pools[idx] = pool]

\* the cache mode that selects the pool at allocation time
ion_buffer_cache_clean_on_alloc(buffer) == buffer.cached

\* the cache mode that selects the pool at release time
ion_buffer_cached(buffer) == buffer.cached

KthreadIndex(cached) == IF cached THEN 1 ELSE 0

\* alloc_buffer_page that wakes the worker after every acquire attempt
alloc_buffer_page_always_wakes(m, buffer, order, cached, r) ==
    LET m1 == [SetPool(m, cached, order_to_index(order), r.pool)
                  EXCEPT !.buddy = r.buddy]
    IN  [page   |-> r.page,
         m      |-> IF pool_auto_refill_en
                    THEN [m1 EXCEPT !.kworker[KthreadIndex(cached)] = TRUE]
                    ELSE m1,
         buffer |-> IF r.page # NULL /\ r.page.from_buddy
                    THEN [buffer EXCEPT !.private_flags = @ + Shl1(order)]
                    ELSE buffer]

\* alloc_buffer_page after ion_page_pool_alloc returned r: the wake of the
\* worker and the count of pages fresh from the system
alloc_buffer_page_after(m, buffer, order, cached, r) ==
    LET m1 == [SetPool(m, cached, order_to_index(order), r.pool)
                  EXCEPT !.buddy = r.buddy]
    IN  [page   |-> r.page,
         m      |-> IF pool_auto_refill_en /\ r.pool.order # 0
                       /\ pool_count_below_lowmark(r.pool)
                    THEN [m1 EXCEPT !.kworker[KthreadIndex(cached)] = TRUE]
                    ELSE m1,
         buffer |-> IF r.page # NULL /\ r.page.from_buddy
                    THEN [buffer EXCEPT !.private_flags = @ + Shl1(order)]
                    ELSE buffer]

\* alloc_buffer_page from the pool of a given cache mode
alloc_buffer_page_in(m, buffer, order, cached) ==
    alloc_buffer_page_after(m, buffer, order, cached,
        ion_page_pool_alloc(PoolOf(m, cached, order_to_index(order)),
                            ~buffer.nozeroed, m.buddy))

\* alloc_buffer_page that always takes the uncached pool
alloc_buffer_page_uncached_only(m, buffer, order) ==
    alloc_buffer_page_in(m, buffer, order, FALSE)

\* alloc_buffer_page that takes the pool of the other cache mode
alloc_buffer_page_other_mode(m, buffer, order) ==
    alloc_buffer_page_in(m, buffer, order, ~ion_buffer_cache_clean_on_alloc(buffer))

alloc_buffer_page(m, buffer, order) ==
    alloc_buffer_page_in(m, buffer, order, ion_buffer_cache_clean_on_alloc(buffer))

\* free_buffer_page that selects the pool of the other cache mode
free_buffer_page_other_mode(m, buffer, page) ==
    LET order  == page.order
        cached == ~ion_buffer_cached(buffer)
    IN  IF (buffer.private_flags \div ION_PRIV_FLAG_SHRINKER_FREE) % 2 = 1
        THEN [m EXCEPT !.buddy = free_pages_to_buddy(@, page)]
        ELSE LET c2 == IF cached /\ buffer.sync_force THEN ~cached ELSE cached
                 idx == order_to_index(order)
             IN  SetPool(m, c2, idx, ion_page_pool_free(PoolOf(m, c2, idx), page))

\* free_buffer_page that always takes the pool of the first order
free_buffer_page_first_index(m, buffer, page) ==
    LET cached == ion_buffer_cached(buffer)
    IN  IF (buffer.private_flags \div ION_PRIV_FLAG_SHRINKER_FREE) % 2 = 1
        THEN [m EXCEPT !.buddy = free_pages_to_buddy(@, page)]
        ELSE LET c2 == IF cached /\ buffer.sync_force THEN ~cached ELSE cached
             IN  SetPool(m, c2, 1, ion_page_pool_free(PoolOf(m, c2, 1), page))

\* free_buffer_page without the test of ION_FLAG_SYNC_FORCE
free_buffer_page_no_force(m, buffer, page) ==
    LET order  == page.order
        cached == ion_buffer_cached(buffer)
    IN  IF (buffer.private_flags \div ION_PRIV_FLAG_SHRINKER_FREE) % 2 = 1
        THEN [m EXCEPT !.buddy = free_pages_to_buddy(@, page)]
        ELSE LET idx == order_to_index(order)
             IN  SetPool(m, cached, idx,
                         ion_page_pool_free(PoolOf(m, cached, idx), page))

\* free_buffer_page without the return after __free_pages
free_buffer_page_no_return(m, buffer, page) ==
    LET order  == page.order
        cached == ion_buffer_cached(buffer)
        m1 == IF (buffer.private_flags \div ION_PRIV_FLAG_SHRINKER_FREE) % 2 = 1
              THEN [m EXCEPT !.buddy = free_pages_to_buddy(@, page)]
              ELSE m
        c2 == IF cached /\ buffer.sync_force THEN ~cached ELSE cached
        idx == order_to_index(order)
    IN  SetPool(m1, c2, idx, ion_page_pool_free(PoolOf(m1, c2, idx), page))

\* free_buffer_page that returns at the mark without __free_pages
free_buffer_page_drops_marked(m, buffer, page) ==
    LET order  == page.order
        cached == ion_buffer_cached(buffer)
    IN  IF (buffer.private_flags \div ION_PRIV_FLAG_SHRINKER_FREE) % 2 = 1
        THEN m
        ELSE LET c2 == IF cached /\ buffer.sync_force THEN ~cached ELSE cached
                 idx == order_to_index(order)
             IN  SetPool(m, c2, idx, ion_page_pool_free(PoolOf(m, c2, idx), page))

free_buffer_page(m, buffer, page) ==
    LET order  == page.order
        cached == ion_buffer_cached(buffer)
    IN  IF (buffer.private_flags \div ION_PRIV_FLAG_SHRINKER_FREE) % 2 = 1
        THEN [m EXCEPT !.buddy = free_pages_to_buddy(@, page)]
        ELSE LET c2 == IF cached /\ buffer.sync_force THEN ~cached ELSE cached
                 idx == order_to_index(order)
             IN  SetPool(m, c2, idx, ion_page_pool_free(PoolOf(m, c2, idx), page))

\* whether free_buffer_page flushes the page (__flush_dcache_area): a page
\* of a cached buffer with ION_FLAG_SYNC_FORCE that is not on its way to the
\* system
free_buffer_page_flushes(buffer, page) ==
    /\ (buffer.private_flags \div ION_PRIV_FLAG_SHRINKER_FREE) % 2 = 0
    /\ ion_buffer_cached(buffer)
    /\ buffer.sync_force

\* the pages that free_buffer_page flushes on its way over a list
free_flushed(buffer, pages) ==
    { pages[i].addr : i \in { j \in 1 .. Len(pages) :
                                free_buffer_page_flushes(buffer, pages[j]) } }

RECURSIVE alloc_largest_from(_, _, _, _, _)
RECURSIVE alloc_largest_got(_, _, _, _)

\* the for loop of alloc_largest_available without the test of max_order
alloc_largest_from_ignores_max_order(i, m, buffer, size, max_order) ==
    IF i > NUM_ORDERS THEN [page |-> NULL, m |-> m, buffer |-> buffer]
    ELSE IF size < order_to_size(orders[i])
    THEN alloc_largest_from(i + 1, m, buffer, size, max_order)
    ELSE alloc_largest_got(i, size, max_order,
                           alloc_buffer_page(m, buffer, orders[i]))

\* the for loop of alloc_largest_available, from index i on
alloc_largest_from(i, m, buffer, size, max_order) ==
    IF i > NUM_ORDERS THEN [page |-> NULL, m |-> m, buffer |-> buffer]
    ELSE IF size < order_to_size(orders[i]) \/ max_order < orders[i]
    THEN alloc_largest_from(i + 1, m, buffer, size, max_order)
    ELSE alloc_largest_got(i, size, max_order,
                           alloc_buffer_page(m, buffer, orders[i]))

\* the body of that loop without the continue: the first fitting order
\* decides
alloc_largest_got_no_continue(i, size, max_order, r) == r

\* the body of that loop after alloc_buffer_page returned r:
\* if (!page) continue; return page
alloc_largest_got(i, size, max_order, r) ==
    IF r.page = NULL
    THEN alloc_largest_from(i + 1, r.m, r.buffer, size, max_order)
    ELSE r

alloc_largest_available(m, buffer, size, max_order) ==
    alloc_largest_from(1, m, buffer, size, max_order)

RECURSIVE free_page_list_skips_last(_, _, _)
\* the walk over the list that stops one page early
free_page_list_skips_last(m, buffer, pages) ==
    IF Len(pages) <= 1 THEN m
    ELSE free_page_list_skips_last(free_buffer_page(m, buffer, Head(pages)),
                                   buffer, Tail(pages))

RECURSIVE free_page_list(_, _, _)
\* free_buffer_page on every page of a list, in list order
free_page_list(m, buffer, pages) ==
    IF pages = << >> THEN m
    ELSE free_page_list(free_buffer_page(m, buffer, Head(pages)), buffer,
                        Tail(pages))

\* the pass that flushes every page of the list once a page was fresh
sg_flushed_every_page(buffer, pages) ==
    { pages[i].addr : i \in { j \in 1 .. Len(pages) : buffer.private_flags > 0 } }

\* the pages that the pass over the page list flushes (__dma_flush_area):
\* those fresh from the system, when private_flags > 0
sg_flushed(buffer, pages) ==
    { pages[i].addr : i \in { j \in 1 .. Len(pages) :
                                buffer.private_flags > 0 /\ pages[j].from_buddy } }

\* the pass that enters every page with half its order
sg_fill_halves_order(buffer, pages) ==
    [i \in 1 .. Len(pages) |->
        [page    |-> [pages[i] EXCEPT !.from_buddy = FALSE,
                                      !.order = @ \div 2],
         length  |-> order_to_size(pages[i].order)]]

\* the pass over the page list that fills the scatter table and clears the
\* mark of every page
sg_fill(buffer, pages) ==
    [i \in 1 .. Len(pages) |->
        [page    |-> [pages[i] EXCEPT !.from_buddy = FALSE],
         length  |-> order_to_size(pages[i].order)]]

RECURSIVE alloc_loop_stops_early(_, _, _, _, _)
\* the loop with the condition size_remaining > PAGE_SIZE
alloc_loop_stops_early(m, buffer, pages, size_remaining, max_order) ==
    IF size_remaining <= PAGE_SIZE
    THEN [ok |-> TRUE, m |-> m, buffer |-> buffer, pages |-> pages]
    ELSE LET r == alloc_largest_available(m, buffer, size_remaining, max_order)
         IN  IF r.page = NULL
             THEN [ok |-> FALSE, m |-> r.m, buffer |-> r.buffer, pages |-> pages]
             ELSE alloc_loop_stops_early(r.m, r.buffer, Append(pages, r.page),
                             size_remaining - order_to_size(r.page.order),
                             r.page.order)

RECURSIVE alloc_loop(_, _, _, _, _)

\* the body of the while loop after alloc_largest_available returned r
alloc_loop_got(pages, size_remaining, r) ==
    IF r.page = NULL
    THEN [ok |-> FALSE, m |-> r.m, buffer |-> r.buffer, pages |-> pages]
    ELSE alloc_loop(r.m, r.buffer, Append(pages, r.page),
                    size_remaining - order_to_size(r.page.order),
                    r.page.order)

\* the while loop of ion_system_heap_allocate
alloc_loop(m, buffer, pages, size_remaining, max_order) ==
    IF size_remaining = 0
    THEN [ok |-> TRUE, m |-> m, buffer |-> buffer, pages |-> pages]
    ELSE alloc_loop_got(pages, size_remaining,
             alloc_largest_available(m, buffer, size_remaining, max_order))

NoTable == << >>

\* the alignment check that lets every alignment pass
align_never_too_large(align) == FALSE

\* if (align > PAGE_SIZE) return -EINVAL
align_too_large(align) == align > PAGE_SIZE

\* the guard with >= in place of >
exceeds_or_equals_half_ram(size) == size \div PAGE_SIZE >= TotalRam \div 2

\* if (size / PAGE_SIZE > totalram_pages() / 2) return -ENOMEM
exceeds_half_ram(size) == size \div PAGE_SIZE > TotalRam \div 2

\* ion_system_heap_allocate after the while loop returned r: the scatter
\* table and the pass that fills it, or the labels free_table and free_pages
allocate_after_loop(r, table) ==
    IF r.ok /\ table = "ok"
    THEN [ret    |-> 0,
          exit   |-> "success",
          m      |-> r.m,
          buffer |-> [r.buffer EXCEPT
                         !.sg_table = sg_fill(r.buffer, r.pages),
                         !.private_flags = 0],
          flushed |-> sg_flushed(r.buffer, r.pages)]
    ELSE [ret    |-> -ENOMEM,
          exit   |-> IF r.ok THEN table ELSE "no_page",
          m      |-> free_page_list(r.m, r.buffer, r.pages),
          buffer |-> r.buffer,
          flushed |-> free_flushed(r.buffer, r.pages)]

ion_system_heap_allocate(m, buffer, size, align, table) ==
    IF align_too_large(align)
    THEN [ret |-> -EINVAL, exit |-> "align", m |-> m, buffer |-> buffer,
          flushed |-> {}]
    ELSE IF exceeds_half_ram(size)
    THEN [ret |-> -ENOMEM, exit |-> "totalram", m |-> m, buffer |-> buffer,
          flushed |-> {}]
    ELSE allocate_after_loop(
             alloc_loop(m, [buffer EXCEPT !.private_flags = 0], << >>,
                        PAGE_ALIGN(size), orders[1]),
             table)

TablePages(buffer) == [i \in 1 .. Len(buffer.sg_table) |-> buffer.sg_table[i].page]

PooledTotal(m) ==
    LET f[i \in 0 .. NUM_ORDERS] ==
            IF i = 0 THEN 0
            ELSE f[i - 1] + ion_page_pool_total(m.cached_pools[i], TRUE)
                          + ion_page_pool_total(m.uncached_pools[i], TRUE)
    IN  f[NUM_ORDERS]

\* ion_heap_buffer_zero: clears the memory of the buffer, unless the buffer
\* was requested with ION_FLAG_NOZEROED
ion_heap_buffer_zero(buffer) ==
    IF buffer.nozeroed THEN buffer
    ELSE [buffer EXCEPT !.sg_table =
             [i \in 1 .. Len(@) |-> [@[i] EXCEPT !.page.zeroed = TRUE]]]

\* the buffer's owner has written to its memory
buffer_dirtied(buffer) ==
    [buffer EXCEPT !.sg_table =
        [i \in 1 .. Len(@) |-> [@[i] EXCEPT !.page.zeroed = FALSE]]]

\* the comparison with >= in place of >
pool_at_or_over_limit(count) == count >= max_page_pool_size

\* the comparison turned around
pool_under_limit(count) == count < max_page_pool_size

\* if (count > max_page_pool_size)
pool_over_limit(count) == count > max_page_pool_size

\* ion_system_heap_free that calls ion_heap_buffer_zero on a marked buffer
\* only
free_mark_and_zero_marked_only(m, buffer) ==
    LET count == PooledTotal(m)
        b1 == IF pool_over_limit(count)
              THEN [buffer EXCEPT !.private_flags =
                       IF (@ \div ION_PRIV_FLAG_SHRINKER_FREE) % 2 = 1 THEN @
                       ELSE @ + ION_PRIV_FLAG_SHRINKER_FREE]
              ELSE buffer
    IN  IF (b1.private_flags \div ION_PRIV_FLAG_SHRINKER_FREE) % 2 = 1
        THEN ion_heap_buffer_zero(b1) ELSE b1

\* ion_system_heap_free up to the walk over the scatter table: the count of
\* pooled pages, the mark, the zeroing
free_mark_and_zero(m, buffer) ==
    LET count == PooledTotal(m)
        b1 == IF pool_over_limit(count)
              THEN [buffer EXCEPT !.private_flags =
                       IF (@ \div ION_PRIV_FLAG_SHRINKER_FREE) % 2 = 1 THEN @
                       ELSE @ + ION_PRIV_FLAG_SHRINKER_FREE]
              ELSE buffer
    IN  IF (b1.private_flags \div ION_PRIV_FLAG_SHRINKER_FREE) % 2 = 0
        THEN ion_heap_buffer_zero(b1) ELSE b1

ion_system_heap_free(m, buffer) ==
    LET b2 == free_mark_and_zero(m, buffer)
    IN  [m |-> free_page_list(m, b2, TablePages(b2)),
         buffer |-> [b2 EXCEPT !.sg_table = NoTable],
         flushed |-> free_flushed(b2, TablePages(b2))]

RECURSIVE heap_shrink_from(_, _, _, _, _)
\* the for loop of ion_system_heap_shrink, from index i down
heap_shrink_from(i, m, only_scan, nr_to_scan, nr_total) ==
    IF i < 1 THEN [m |-> m, nr_total |-> nr_total]
    ELSE LET u == ion_page_pool_shrink(m.uncached_pools[i], m.buddy, nr_to_scan)
             mu == [m EXCEPT !.uncached_pools[i] = u.pool, !.buddy = u.buddy]
         IN  IF only_scan
             THEN LET c == ion_page_pool_shrink(mu.cached_pools[i], mu.buddy,
                                                nr_to_scan)
                      mc == [mu EXCEPT !.cached_pools[i] = c.pool,
                                       !.buddy = c.buddy]
                  IN  heap_shrink_from(i - 1, mc, only_scan, nr_to_scan,
                                       nr_total + u.freed + c.freed)
             ELSE IF nr_to_scan - u.freed <= 0
             THEN [m |-> mu, nr_total |-> nr_total + u.freed]
             ELSE LET c == ion_page_pool_shrink(mu.cached_pools[i], mu.buddy,
                                                nr_to_scan - u.freed)
                      mc == [mu EXCEPT !.cached_pools[i] = c.pool,
                                       !.buddy = c.buddy]
                  IN  IF nr_to_scan - u.freed - c.freed <= 0
                      THEN [m |-> mc, nr_total |-> nr_total + u.freed + c.freed]
                      ELSE heap_shrink_from(i - 1, mc, only_scan,
                                            nr_to_scan - u.freed - c.freed,
                                            nr_total + u.freed + c.freed)

RECURSIVE heap_shrink_upward(_, _, _, _)
\* the loop for (i = 0; i < NUM_ORDERS; i++): largest order first
heap_shrink_upward(i, m, nr_to_scan, nr_total) ==
    IF i > NUM_ORDERS THEN [m |-> m, nr_total |-> nr_total]
    ELSE LET u == ion_page_pool_shrink(m.uncached_pools[i], m.buddy, nr_to_scan)
             mu == [m EXCEPT !.uncached_pools[i] = u.pool, !.buddy = u.buddy]
         IN  IF nr_to_scan - u.freed <= 0
             THEN [m |-> mu, nr_total |-> nr_total + u.freed]
             ELSE LET c == ion_page_pool_shrink(mu.cached_pools[i], mu.buddy,
                                                nr_to_scan - u.freed)
                      mc == [mu EXCEPT !.cached_pools[i] = c.pool,
                                       !.buddy = c.buddy]
                  IN  IF nr_to_scan - u.freed - c.freed <= 0
                      THEN [m |-> mc, nr_total |-> nr_total + u.freed + c.freed]
                      ELSE heap_shrink_upward(i + 1, mc,
                                              nr_to_scan - u.freed - c.freed,
                                              nr_total + u.freed + c.freed)

\* the shrink that walks the orders array from its first entry
ion_system_heap_shrink_largest_first(m, nr_to_scan) ==
    IF nr_to_scan = 0
    THEN heap_shrink_from(NUM_ORDERS, m, TRUE, nr_to_scan, 0)
    ELSE heap_shrink_upward(1, m, nr_to_scan, 0)

\* the shrink that never sets only_scan
ion_system_heap_shrink_never_scans(m, nr_to_scan) ==
    heap_shrink_from(NUM_ORDERS, m, FALSE, nr_to_scan, 0)

\* the shrink that returns its target in place of the count of freed pages
ion_system_heap_shrink_returns_target(m, nr_to_scan) ==
    [heap_shrink_from(NUM_ORDERS, m, nr_to_scan = 0, nr_to_scan, 0)
        EXCEPT !.nr_total = nr_to_scan]

ion_system_heap_shrink(m, nr_to_scan) ==
    heap_shrink_from(NUM_ORDERS, m, nr_to_scan = 0, nr_to_scan, 0)

\* the for loop of ion_sys_heap_worker without the call of
\* ion_page_pool_refill
worker_sweep_from_without_refill(i, pools, free) ==
    [pools |-> pools, buddy |-> free]

RECURSIVE worker_sweep_from(_, _, _)
\* one pass of the for loop of ion_sys_heap_worker over the pools of one mode
worker_sweep_from(i, pools, free) ==
    IF i > NUM_ORDERS THEN [pools |-> pools, buddy |-> free]
    ELSE IF pool_count_below_lowmark(pools[i])
    THEN LET r == ion_page_pool_refill(pools[i], free)
         IN  worker_sweep_from(i + 1, [pools EXCEPT ![i] = r.pool], r.buddy)
    ELSE worker_sweep_from(i + 1, pools, free)

\* ------------------------------------------------------------ state machine

\* a buffer slot nobody has allocated
NoBuffer ==
    [state |-> "none", size |-> 0, cached |-> FALSE, nozeroed |-> FALSE,
     sync_force |-> FALSE, private_flags |-> 0, sg_table |-> NoTable]

\* a buffer as ion_buffer_create hands it to the heap's allocate
NewBuffer(size, fl) ==
    [state |-> "new", size |-> size, cached |-> fl.cached,
     nozeroed |-> fl.nozeroed, sync_force |-> fl.sync_force,
     private_flags |-> 0, sg_table |-> NoTable]

\* the record of a completed call: its arguments, its return value, the
\* return statement it left by, and the buffer as the call left it; tick
\* tells one call from the next
Call(op, b, ret, exit, align, buffer) ==
    [op |-> op, buf |-> b, ret |-> ret, exit |-> exit, align |-> align,
     buffer |-> buffer, tick |-> 1 - last.tick]

\* no call is running on the buffer
Idle ==
    [pc |-> "idle", buffer |-> NoBuffer, pages |-> << >>, size_remaining |-> 0,
     max_order |-> 0, table |-> "ok"]

\* no page is out of the pool
NoHold == [page |-> NULL, total |-> 0]

\* ------------------------------------------------------------ execution contexts

\* two threads that allocate and release, the memory-pressure notifier and
\* a refill worker
Contexts == { "caller1", "caller2", "shrinker", "worker" }

\* the context is in no pool operation and holds no lock
IdleCtx ==
    [pc |-> "idle", cached |-> FALSE, idx |-> 1, page |-> NULL, holds |-> {}]

\* mutex_unlock(&pool->mutex) left out
pool_unlock_forgotten(x) == x

\* mutex_lock(&pool->mutex) of the pool the context works on
pool_lock(x) == [x EXCEPT !.holds = @ \cup { << x.cached, x.idx >> }]

\* mutex_unlock(&pool->mutex)
pool_unlock(x) == [x EXCEPT !.holds = @ \ { << x.cached, x.idx >> }]

\* ------------------------------------------------------------ worker threads

\* no thread: heap->kworker[c] of a zeroed heap
NoTask ==
    [pc |-> "none", i |-> 0, state |-> "TASK_RUNNING", should_stop |-> FALSE,
     wake_seen |-> FALSE]

\* kthread_create: the thread exists and waits for its first wake
\* before it calls ion_sys_heap_worker
Created == [NoTask EXCEPT !.pc = "created"]

\* where a thread stands in ion_sys_heap_worker:
\*   "sweep"   in the for loop over the pools, at index i
\*   "mark"    before set_current_state(TASK_INTERRUPTIBLE)
\*   "check"   before the test of kthread_should_stop()
\*   "asleep"  in schedule()
\*   "exited"  after the break, or stopped before its first wake
Alive(t) == t.pc \in {"created", "sweep", "mark", "check", "asleep"}

\* wake_up_process: a thread that waits for its first wake starts
\* ion_sys_heap_worker, or ends at once when it was told to stop; a thread
\* in state TASK_INTERRUPTIBLE is set to TASK_RUNNING; a thread in state
\* TASK_RUNNING is left as it is. wake_seen notes that a wake was posted
\* after the thread began its current sweep.
wake_up_process(t) ==
    IF t.pc = "created"
    THEN IF t.should_stop THEN [t EXCEPT !.pc = "exited"]
         ELSE [t EXCEPT !.pc = "sweep", !.i = 1]
    ELSE IF Alive(t)
    THEN [t EXCEPT !.state = "TASK_RUNNING", !.wake_seen = TRUE]
    ELSE t

\* kthread_stop: set the stop flag and wake the thread
kthread_stop(t) == wake_up_process([t EXCEPT !.should_stop = TRUE])

\* ion_create_kworker; fail names the call that fails, if any
ion_create_kworker(fail, mode) ==
    IF fail = mode \o "_kthread_create"
    THEN [err |-> -ENOMEM, thread |-> NoTask]
    ELSE IF fail = mode \o "_sched_setattr"
    THEN [err |-> -EINVAL, thread |-> kthread_stop(Created)]
    ELSE [err |-> 0, thread |-> Created]

\* no heap: before ion_system_heap_create
NoHeap ==
    [state |-> "none", ret |-> 0, system_heap |-> FALSE,
     uncached_alive |-> FALSE, cached_alive |-> FALSE, uaf |-> FALSE]

\* the labels destroy_pools, destroy_uncached_pools and free_heap of
\* ion_system_heap_create
create_unwind(label, h, ret) ==
    LET h1 == IF label = "destroy_pools"
              THEN [h EXCEPT !.cached_alive = FALSE] ELSE h
        h2 == IF label \in {"destroy_pools", "destroy_uncached_pools"}
              THEN [h1 EXCEPT !.uncached_alive = FALSE] ELSE h1
    IN  [h2 EXCEPT !.state = "failed", !.ret = ret]

\* the block under if (pool_auto_refill_en) that leaves the first worker as
\* it is when the second cannot be created
create_kworkers_keeps_first(fail, h) ==
    LET none == [c \in {0, 1} |-> NoTask]
        u == ion_create_kworker(fail, "uncached")
        c == ion_create_kworker(fail, "cached")
    IN  IF u.err # 0
        THEN [life |-> create_unwind("destroy_pools", h, u.err),
              task |-> [none EXCEPT ![0] = u.thread]]
        ELSE [life |-> IF c.err # 0
                       THEN create_unwind("destroy_pools", h, c.err) ELSE h,
              task |-> [none EXCEPT ![0] = u.thread, ![1] = c.thread]]

\* the block under if (pool_auto_refill_en) of ion_system_heap_create, with
\* its two jumps to destroy_pools
create_kworkers(fail, h) ==
    LET none == [c \in {0, 1} |-> NoTask]
        u == ion_create_kworker(fail, "uncached")
        c == ion_create_kworker(fail, "cached")
    IN  IF u.err # 0
        THEN [life |-> create_unwind("destroy_pools", h, u.err),
              task |-> [none EXCEPT ![0] = u.thread]]
        ELSE IF c.err # 0
        THEN [life |-> create_unwind("destroy_pools", h, c.err),
              task |-> [none EXCEPT ![0] = kthread_stop(u.thread),
                                    ![1] = c.thread]]
        ELSE [life |-> h,
              task |-> [none EXCEPT ![0] = u.thread, ![1] = c.thread]]

\* if (!system_heap) system_heap = heap; return &heap->heap
create_publish(r) ==
    IF r.life.state = "failed" THEN r
    ELSE [r EXCEPT !.life.state = "live", !.life.system_heap = TRUE]

\* ion_system_heap_create; fail names the call that fails, if any
ion_system_heap_create(fail) ==
    LET none == [c \in {0, 1} |-> NoTask]
        h1 == [NoHeap EXCEPT !.uncached_alive = TRUE]
        h2 == [h1 EXCEPT !.cached_alive = TRUE]
    IN  IF fail = "kzalloc"
        THEN [life |-> [NoHeap EXCEPT !.state = "failed", !.ret = -ENOMEM],
              task |-> none]
        ELSE IF fail = "uncached_pools"
        THEN [life |-> create_unwind("free_heap", NoHeap, -ENOMEM),
              task |-> none]
        ELSE IF fail = "cached_pools"
        THEN [life |-> create_unwind("destroy_uncached_pools", h1, -ENOMEM),
              task |-> none]
        ELSE create_publish(IF pool_auto_refill_en
                            THEN create_kworkers(fail, h2)
                            ELSE [life |-> h2, task |-> none])

\* ion_system_heap_destroy: destroys the eight pools and frees the heap; it
\* does not touch heap->kworker and leaves system_heap as it is
ion_system_heap_destroy(h) ==
    [h EXCEPT !.state = "destroyed", !.uncached_alive = FALSE,
              !.cached_alive = FALSE]

\* a created heap whose workers the model does not follow
LiveHeap ==
    [NoHeap EXCEPT !.state = "live", !.system_heap = TRUE,
                   !.uncached_alive = TRUE, !.cached_alive = TRUE]

\* ------------------------------------------------------------ pool sets

\* number of pool objects the kernel allocator can hand out
MaxPoolObjects == 4

PoolIds == 1 .. MaxPoolObjects

\* pools[i] == NULL
NoPoolObject ==
    [id |-> 0, order |-> 0, cached |-> FALSE, gfp_mask |-> "none",
     heap |-> FALSE]

\* ion_page_pool_create: a new pool object at address id, or NULL (id = 0)
\* when its kmalloc fails
ion_page_pool_create(id, gfp_mask, order, cached) ==
    IF id = 0 THEN NoPoolObject
    ELSE [id |-> id, order |-> order, cached |-> cached,
          gfp_mask |-> gfp_mask, heap |-> FALSE]

RECURSIVE destroy_pools_from(_, _, _)
\* the for loop of ion_system_heap_destroy_pools from index i on: every
\* pool that is there is destroyed and its slot set to NULL
destroy_pools_from(i, pools, live) ==
    IF i > NUM_ORDERS THEN [pools |-> pools, live |-> live]
    ELSE IF pools[i] # NoPoolObject
    THEN destroy_pools_from(i + 1, [pools EXCEPT ![i] = NoPoolObject],
                            live \ { pools[i].id })
    ELSE destroy_pools_from(i + 1, pools, live)

\* ion_system_heap_destroy_pools
ion_system_heap_destroy_pools(pools, live) == destroy_pools_from(1, pools, live)

RECURSIVE create_pools_leaks_from(_, _, _, _, _)
\* the loop that returns -ENOMEM without the jump to err_create_pool
create_pools_leaks_from(i, pools, live, cached, ids) ==
    IF i > NUM_ORDERS THEN [ret |-> 0, pools |-> pools, live |-> live]
    ELSE LET gfp_flags == IF orders[i] < 4 THEN "low_order_gfp_flags"
                          ELSE "high_order_gfp_flags"
             pool == ion_page_pool_create(ids[i], gfp_flags, orders[i], cached)
         IN  IF pool = NoPoolObject
             THEN [ret |-> -ENOMEM, pools |-> pools, live |-> live]
             ELSE create_pools_leaks_from(
                      i + 1, [pools EXCEPT ![i] = [pool EXCEPT !.heap = TRUE]],
                      live \cup { pool.id }, cached, ids)

RECURSIVE create_pools_from(_, _, _, _, _)
\* the for loop of ion_system_heap_create_pools from index i on, and the
\* label err_create_pool; ids[i] is the address the i-th
\* ion_page_pool_create returns, 0 when it fails
create_pools_from(i, pools, live, cached, ids) ==
    IF i > NUM_ORDERS THEN [ret |-> 0, pools |-> pools, live |-> live]
    ELSE LET gfp_flags == IF orders[i] < 4 THEN "low_order_gfp_flags"
                          ELSE "high_order_gfp_flags"
             pool == ion_page_pool_create(ids[i], gfp_flags, orders[i], cached)
         IN  IF pool = NoPoolObject
             THEN LET d == ion_system_heap_destroy_pools(pools, live)
                  IN  [ret |-> -ENOMEM, pools |-> d.pools, live |-> d.live]
             ELSE create_pools_from(
                      i + 1, [pools EXCEPT ![i] = [pool EXCEPT !.heap = TRUE]],
                      live \cup { pool.id }, cached, ids)

\* ion_system_heap_create_pools
ion_system_heap_create_pools(pools, live, cached, ids) ==
    create_pools_from(1, pools, live, cached, ids)

\* the pool arrays of a heap that kzalloc has just returned, and no pool
\* object
NoPools ==
    [pools  |-> [c \in BOOLEAN |-> [i \in 1 .. NUM_ORDERS |-> NoPoolObject]],
     live   |-> {},
     op     |-> "none",
     cached |-> FALSE,
     ids    |-> [i \in 1 .. NUM_ORDERS |-> 0],
     ret    |-> 0]

\* ------------------------------------------------------------ ion client

EFAULT == 14

ENOTTY == 25

\* number of handles one client can have at a time
MaxHandles == 2

HandleIds == 1 .. MaxHandles

\* the commands of ion_ioctl; "other" is any command that no case of the
\* switch names, "other_oversize" one whose _IOC_SIZE is above
\* sizeof(union ion_ioctl_arg)
Commands ==
    { "ION_IOC_ALLOC", "ION_IOC_FREE", "ION_IOC_SHARE", "ION_IOC_MAP",
      "ION_IOC_IMPORT", "ION_IOC_SYNC", "ION_IOC_SYNC_PARTIAL",
      "ION_IOC_CUSTOM", "ION_IOC_HEAP_QUERY", "other", "other_oversize" }

\* _IOC_DIR of a command: the commands of the switch that ion_ioctl_dir does
\* not fix up are declared _IOWR
IOC_DIR(cmd) ==
    IF cmd \in { "other", "other_oversize" } THEN { }
    ELSE { "_IOC_READ", "_IOC_WRITE" }

ion_ioctl_dir(cmd) ==
    IF cmd \in { "ION_IOC_SYNC", "ION_IOC_SYNC_PARTIAL", "ION_IOC_FREE",
                 "ION_IOC_CUSTOM" }
    THEN { "_IOC_WRITE" }
    ELSE IOC_DIR(cmd)

\* reserved tells whether a reserved field of the query is set
validate_ioctl_arg(cmd, reserved) ==
    IF cmd = "ION_IOC_HEAP_QUERY" /\ reserved THEN -EINVAL ELSE 0

\* The handles of the client, threaded through the operators below:
\* k = [ref, uaf]; ref[h] is the reference count of handle h, 0 when there
\* is no such handle; uaf notes a reference dropped on a handle that was
\* destroyed

\* ion_handle_get
ion_handle_get(k, h) == [k EXCEPT !.ref[h] = @ + 1]

\* ion_handle_put: the handle is destroyed when its last reference goes
ion_handle_put(k, h) ==
    IF k.ref[h] <= 0 THEN [k EXCEPT !.uaf = TRUE]
    ELSE [k EXCEPT !.ref[h] = @ - 1]

\* ion_handle_validate: the handle is in the client's table
ion_handle_validate(k, h) == k.ref[h] > 0

\* ion_free: drops the client's reference of a valid handle
ion_free(k, h) ==
    IF ion_handle_validate(k, h) THEN ion_handle_put(k, h) ELSE k

\* __ion_alloc with grab_handle: a new handle with the client's reference
\* and, when asked, one more for the caller, or an error
ion_alloc(k, ok, grab_handle) ==
    IF ok /\ \E h \in HandleIds : k.ref[h] = 0
    THEN LET h == CHOOSE x \in HandleIds :
                      k.ref[x] = 0 /\ \A y \in HandleIds : k.ref[y] = 0 => x <= y
         IN  [err |-> 0, handle |-> h,
              k |-> [k EXCEPT !.ref[h] = IF grab_handle THEN 2 ELSE 1]]
    ELSE [err |-> -ENOMEM, handle |-> 0, k |-> k]

\* ion_handle_get_by_id_nolock: the handle with a reference taken, or an
\* error
ion_handle_get_by_id_nolock(k, id) ==
    IF ion_handle_validate(k, id)
    THEN [err |-> 0, handle |-> id, k |-> ion_handle_get(k, id)]
    ELSE [err |-> -EINVAL, handle |-> 0, k |-> k]

\* the arguments of one call of ion_ioctl and the outcomes of the calls it
\* makes: from_ok and to_ok are those of copy_from_user and copy_to_user,
\* reserved is a set reserved field, id the handle id in the data, ok the
\* success of the function the command calls; a field that a command does
\* not read has one value
IoctlInputs ==
    { in \in [cmd : Commands, from_ok : BOOLEAN, reserved : BOOLEAN,
              id : HandleIds, ok : BOOLEAN, to_ok : BOOLEAN,
              custom_ioctl : BOOLEAN] :
        /\ in.reserved => in.cmd = "ION_IOC_HEAP_QUERY"
        /\ ~in.custom_ioctl => in.cmd = "ION_IOC_CUSTOM"
        /\ in.id # 1 => in.cmd \in { "ION_IOC_FREE", "ION_IOC_SHARE",
                                      "ION_IOC_MAP" } }

\* what a case of the switch leaves: the handles, ret, cleanup_handle (0 for
\* NULL) and whether the case returned from ion_ioctl
Case(k, ret, cleanup_handle, returned) ==
    [k |-> k, ret |-> ret, cleanup_handle |-> cleanup_handle,
     returned |-> returned]

\* the switch of ion_ioctl
ioctl_switch(k, in) ==
    IF in.cmd = "ION_IOC_ALLOC"
    THEN LET r == ion_alloc(k, in.ok, TRUE)
         IN  IF r.err # 0 THEN Case(k, r.err, 0, TRUE)
             ELSE Case(r.k, 0, r.handle, FALSE)
    ELSE IF in.cmd = "ION_IOC_FREE"
    THEN LET r == ion_handle_get_by_id_nolock(k, in.id)
         IN  IF r.err # 0 THEN Case(k, r.err, 0, TRUE)
             ELSE Case(ion_handle_put(ion_free(r.k, r.handle), r.handle),
                       0, 0, FALSE)
    ELSE IF in.cmd \in { "ION_IOC_SHARE", "ION_IOC_MAP" }
    THEN LET r == ion_handle_get_by_id_nolock(k, in.id)
         IN  IF r.err # 0 THEN Case(k, r.err, 0, TRUE)
             ELSE Case(ion_handle_put(r.k, r.handle),
                       IF in.ok THEN 0 ELSE -ENOMEM, 0, FALSE)
    ELSE IF in.cmd = "ION_IOC_IMPORT"
    THEN LET r == ion_alloc(k, in.ok, FALSE)
         IN  Case(r.k, r.err, 0, FALSE)
    ELSE IF in.cmd \in { "ION_IOC_SYNC", "ION_IOC_SYNC_PARTIAL",
                        "ION_IOC_HEAP_QUERY" }
    THEN Case(k, IF in.ok THEN 0 ELSE -EINVAL, 0, FALSE)
    ELSE IF in.cmd = "ION_IOC_CUSTOM"
    THEN IF ~in.custom_ioctl THEN Case(k, -ENOTTY, 0, TRUE)
         ELSE Case(k, IF in.ok THEN 0 ELSE -EINVAL, 0, FALSE)
    ELSE Case(k, -ENOTTY, 0, TRUE)

\* the result of ion_ioctl: the handles, the return value, the handle that
\* __ion_alloc made for the call (0 for none), and the calls of ion_free and
\* of ion_handle_put on cleanup_handle
Done(k, ret, made_handle, frees, puts) ==
    [k |-> k, ret |-> ret, handle |-> made_handle, frees |-> frees,
     puts |-> puts]

\* ion_ioctl after the switch that forgets cleanup_handle when copy_to_user
\* fails
ioctl_after_switch_leaks(sw, in) ==
    IF sw.returned THEN Done(sw.k, sw.ret, 0, 0, 0)
    ELSE IF "_IOC_READ" \in ion_ioctl_dir(in.cmd) /\ ~in.to_ok
    THEN Done(sw.k, -EFAULT, sw.cleanup_handle, 0, 0)
    ELSE IF sw.cleanup_handle # 0
    THEN Done(ion_handle_put(sw.k, sw.cleanup_handle), sw.ret,
              sw.cleanup_handle, 0, 1)
    ELSE Done(sw.k, sw.ret, 0, 0, 0)

\* ion_ioctl after the switch: copy_to_user, and the references of
\* cleanup_handle
ioctl_after_switch(sw, in) ==
    IF sw.returned THEN Done(sw.k, sw.ret, 0, 0, 0)
    ELSE IF "_IOC_READ" \in ion_ioctl_dir(in.cmd) /\ ~in.to_ok
    THEN IF sw.cleanup_handle # 0
         THEN Done(ion_handle_put(ion_free(sw.k, sw.cleanup_handle),
                                  sw.cleanup_handle),
                   -EFAULT, sw.cleanup_handle, 1, 1)
         ELSE Done(sw.k, -EFAULT, 0, 0, 0)
    ELSE IF sw.cleanup_handle # 0
    THEN Done(ion_handle_put(sw.k, sw.cleanup_handle), sw.ret,
              sw.cleanup_handle, 0, 1)
    ELSE Done(sw.k, sw.ret, 0, 0, 0)

\* ion_ioctl
ion_ioctl(k, in) ==
    IF in.cmd = "other_oversize" THEN Done(k, -EINVAL, 0, 0, 0)
    ELSE IF ~in.from_ok THEN Done(k, -EFAULT, 0, 0, 0)
    ELSE IF validate_ioctl_arg(in.cmd, in.reserved) # 0
    THEN Done(k, validate_ioctl_arg(in.cmd, in.reserved), 0, 0, 0)
    ELSE ioctl_after_switch(ioctl_switch(k, in), in)

\* a client with no handle, before its first ioctl
NoClient ==
    [k      |-> [ref |-> [h \in HandleIds |-> 0], uaf |-> FALSE],
     in     |-> [cmd |-> "none", from_ok |-> TRUE, reserved |-> FALSE,
                 id |-> 1, ok |-> TRUE, to_ok |-> TRUE, custom_ioctl |-> FALSE],
     ret    |-> 0,
     handle |-> 0,
     frees  |-> 0,
     puts   |-> 0]

\* the memory of a machine with the given frames, and no buffer yet
InitMem(frames) ==
    /\ buddy = frames
    /\ uncached_pools = [i \in 1 .. NUM_ORDERS |-> EmptyPool(orders[i], FALSE)]
    /\ cached_pools = [i \in 1 .. NUM_ORDERS |-> EmptyPool(orders[i], TRUE)]
    /\ kworker = [c \in {0, 1} |-> FALSE]
    /\ buffers = [b \in Bufs |-> NoBuffer]
    /\ last = [op |-> "init", buf |-> 0, ret |-> 0, exit |-> "none",
               align |-> 0, buffer |-> NoBuffer, tick |-> 0]
    /\ scen = 0
    /\ inflight = [b \in Bufs |-> Idle]
    /\ lone_pool = EmptyPool(0, FALSE)
    /\ held = NoHold
    /\ ctx = [x \in Contexts |-> IdleCtx]
    /\ flushed = {}
    /\ made = NoPools
    /\ client = NoClient

\* the heap after ion_system_heap_create, on a machine with the given frames
InitHeap(frames) ==
    /\ InitMem(frames)
    /\ task = [c \in {0, 1} |-> NoTask]
    /\ life = LiveHeap

Init ==
    /\ InitHeap(FrameSet)
    /\ max_page_pool_size \in CeilingChoices
    /\ pool_auto_refill_en \in BOOLEAN

SetMem(m) ==
    /\ buddy' = m.buddy
    /\ uncached_pools' = m.uncached_pools
    /\ cached_pools' = m.cached_pools
    /\ kworker' = m.kworker

\* the slot a new buffer takes
FreeSlot(b) ==
    /\ buffers[b].state = "none"
    /\ \A c \in Bufs : c < b => buffers[c].state # "none"

\* a caller allocates buffer b: ion_system_heap_allocate, whole
Allocate(b, size, align, fl, table) ==
    /\ FreeSlot(b)
    /\ \E r \in { ion_system_heap_allocate(HeapMem, NewBuffer(size, fl), size,
                                         align, table) } :
           /\ SetMem(r.m)
           /\ buffers' = [buffers EXCEPT ![b] =
                             IF r.ret = 0 THEN [r.buffer EXCEPT !.state = "live"]
                             ELSE NoBuffer]
           /\ last' = Call("allocate", b, r.ret, r.exit, align, r.buffer)
           /\ scen' = IF scen \in 0 .. 2 /\ last.op \in {"init", "free"}
                         /\ r.ret = 0 /\ PAGE_ALIGN(size) = PAGE_SIZE
                         /\ ~fl.cached /\ ~fl.sync_force /\ ~fl.nozeroed
                      THEN scen ELSE -1
           /\ flushed' = r.flushed
    /\ UNCHANGED << max_page_pool_size, pool_auto_refill_en, aside >>

\* the owner, who has written to the buffer, releases it:
\* ion_system_heap_free, whole
Release(b) ==
    /\ buffers[b].state = "live"
    /\ \E r \in { ion_system_heap_free(HeapMem, buffer_dirtied(buffers[b])) } :
           /\ SetMem(r.m)
           /\ buffers' = [buffers EXCEPT ![b] = NoBuffer]
           /\ last' = Call("free", b, 0, "none", 0,
                           [r.buffer EXCEPT !.sg_table = buffers[b].sg_table])
           /\ scen' = IF scen \in 0 .. 2 /\ last.op = "allocate"
                      THEN scen + 1 ELSE -1
           /\ flushed' = r.flushed
    /\ UNCHANGED << max_page_pool_size, pool_auto_refill_en, aside >>

\* the memory-pressure notifier calls ion_system_heap_shrink
Shrink(nr_to_scan) ==
    /\ \E r \in { ion_system_heap_shrink(HeapMem, nr_to_scan) } :
           /\ SetMem(r.m)
           /\ last' = Call("shrink", nr_to_scan, r.nr_total, "none", 0, NoBuffer)
    /\ scen' = -1
    /\ flushed' = {}
    /\ UNCHANGED << buffers, max_page_pool_size, pool_auto_refill_en, aside >>

\* the woken worker of cache mode c runs one sweep and suspends again
WorkerSweep(c) ==
    /\ pool_auto_refill_en
    /\ kworker[c]
    /\ \E r \in { worker_sweep_from(1, (IF c = 1 THEN cached_pools ELSE uncached_pools), buddy) } :
           /\ buddy' = r.buddy
           /\ IF c = 1
              THEN cached_pools' = r.pools /\ UNCHANGED uncached_pools
              ELSE uncached_pools' = r.pools /\ UNCHANGED cached_pools
    /\ kworker' = [kworker EXCEPT ![c] = FALSE]
    /\ last' = Call("sweep", c, 0, "none", 0, NoBuffer)
    /\ scen' = -1
    /\ flushed' = {}
    /\ UNCHANGED << buffers, max_page_pool_size, pool_auto_refill_en, aside >>

DoAllocate ==
    \E b \in Bufs, rq \in Requests :
        Allocate(b, rq.size, rq.align, rq.fl, rq.table)

DoRelease == \E b \in Bufs : Release(b)

DoShrink == \E n \in 0 .. MaxScan : Shrink(n)

DoWorkerSweep == \E c \in {0, 1} : WorkerSweep(c)

Next == DoAllocate \/ DoRelease \/ DoShrink \/ DoWorkerSweep

Spec == Init /\ [][Next]_vars

\* ------------------------------------------------------------ a machine with a spare page

\* one more single frame than FrameSet has
SpareFrame == NFrames

\* the calls of allocate on that machine: one page or a block and a page, an
\* alignment of one page, every flag set, the scatter table can be built
SpareRequests ==
    [size : {1, 16 * PAGE_SIZE + 1}, align : {PAGE_SIZE}, fl : FlagChoices,
     table : {"ok"}]

InitSpare ==
    /\ InitHeap(FrameSet \cup {SpareFrame})
    /\ max_page_pool_size \in CeilingChoices
    /\ pool_auto_refill_en \in BOOLEAN

DoAllocateSpare ==
    \E b \in Bufs, rq \in SpareRequests :
        Allocate(b, rq.size, rq.align, rq.fl, rq.table)

NextSpare == DoAllocateSpare \/ DoRelease \/ DoShrink \/ DoWorkerSweep

SpecSpare == InitSpare /\ [][NextSpare]_vars

\* ------------------------------------------------------------ a fragmented machine

\* the free memory of a machine that has no free block of the large order
\* left: 19 single frames, 17 for one request and two that a second finds
FragFrames == (16 * NBig) .. (16 * NBig + 18)

\* the calls of allocate on that machine: 17 pages, uncached, zeroed or with
\* ION_FLAG_NOZEROED
FragRequests ==
    [size : {16 * PAGE_SIZE + 1}, align : {PAGE_SIZE},
     fl : { fl \in AllFlagChoices : ~fl.cached /\ ~fl.sync_force },
     table : {"ok"}]

InitFrag ==
    /\ InitHeap(FragFrames)
    /\ max_page_pool_size \in CeilingChoices
    /\ pool_auto_refill_en \in BOOLEAN

DoAllocateFrag ==
    \E b \in Bufs, rq \in FragRequests :
        Allocate(b, rq.size, rq.align, rq.fl, rq.table)

NextFrag == DoAllocateFrag \/ DoRelease

SpecFrag == InitFrag /\ [][NextFrag]_vars

\* the calls of allocate on the fragmented machine when every buffer that
\* comes to life asked for zeroed memory: a call with ION_FLAG_NOZEROED
\* fails, for want of pages or of its scatter table
UnzeroedRequests ==
    { rq \in [size : {16 * PAGE_SIZE + 1}, align : {PAGE_SIZE},
              fl : { fl \in AllFlagChoices : ~fl.cached /\ ~fl.sync_force },
              table : {"ok", "sg_alloc_table_fails"}] :
          rq.fl.nozeroed <=> rq.table # "ok" }

NextUnzeroed ==
    \/ \E b \in Bufs, rq \in UnzeroedRequests :
           Allocate(b, rq.size, rq.align, rq.fl, rq.table)
    \/ \E b \in Bufs : Release(b)

SpecUnzeroed == InitFrag /\ [][NextUnzeroed]_vars

\* ------------------------------------------------------------ the heap and its worker threads

\* The heap from ion_system_heap_create to ion_system_heap_destroy. The
\* calls of allocate and release are whole steps; each worker thread takes
\* the steps of ion_sys_heap_worker one by one, and a wake_up_process of
\* alloc_buffer_page acts on the thread's state (kworker stays clear).

\* the calls that can fail inside ion_system_heap_create
CreateFailures ==
    { "none", "kzalloc", "uncached_pools", "cached_pools",
      "uncached_kthread_create", "uncached_sched_setattr",
      "cached_kthread_create", "cached_sched_setattr" }

\* the calls of allocate: a block and a page, of either cache mode
LifeRequests ==
    [size : {16 * PAGE_SIZE + 1}, align : {PAGE_SIZE},
     fl : { fl \in FlagChoices : ~fl.sync_force }, table : {"ok"}]

InitLife ==
    /\ InitMem(FrameSet)
    /\ task = [c \in {0, 1} |-> NoTask]
    /\ life = NoHeap
    /\ max_page_pool_size \in CeilingChoices
    /\ pool_auto_refill_en \in BOOLEAN

Create(fail) ==
    /\ life.state = "none"
    /\ \E r \in { ion_system_heap_create(fail) } :
           /\ life' = r.life
           /\ task' = r.task
           /\ last' = Call("create", 0, r.life.ret, fail, 0, NoBuffer)
    /\ UNCHANGED << buddy, uncached_pools, cached_pools, kworker, buffers,
                    max_page_pool_size, pool_auto_refill_en, scen,
                    inflight, lone_pool, held, ctx, flushed, made, client >>

\* ion_system_heap_allocate, whole, with the wakes it posts
LifeAllocate(b, rq) ==
    /\ life.state = "live"
    /\ FreeSlot(b)
    /\ \E r \in { ion_system_heap_allocate(HeapMem, NewBuffer(rq.size, rq.fl),
                                         rq.size, rq.align, rq.table) } :
           /\ buddy' = r.m.buddy
           /\ uncached_pools' = r.m.uncached_pools
           /\ cached_pools' = r.m.cached_pools
           /\ task' = [c \in {0, 1} |->
                          IF r.m.kworker[c] THEN wake_up_process(task[c])
                          ELSE task[c]]
           /\ buffers' = [buffers EXCEPT ![b] =
                             IF r.ret = 0 THEN [r.buffer EXCEPT !.state = "live"]
                             ELSE NoBuffer]
           /\ last' = Call("allocate", b, r.ret, r.exit, rq.align, r.buffer)
    /\ UNCHANGED << kworker, max_page_pool_size, pool_auto_refill_en, scen,
                    inflight, lone_pool, held, ctx, flushed, life, made, client >>

\* ion_system_heap_free, whole
LifeRelease(b) ==
    /\ life.state = "live"
    /\ buffers[b].state = "live"
    /\ \E r \in { ion_system_heap_free(HeapMem, buffer_dirtied(buffers[b])) } :
           /\ buddy' = r.m.buddy
           /\ uncached_pools' = r.m.uncached_pools
           /\ cached_pools' = r.m.cached_pools
           /\ buffers' = [buffers EXCEPT ![b] = NoBuffer]
           /\ last' = Call("free", b, 0, "none", 0,
                           [r.buffer EXCEPT !.sg_table = buffers[b].sg_table])
    /\ UNCHANGED << kworker, max_page_pool_size, pool_auto_refill_en, scen,
                    inflight, lone_pool, held, ctx, flushed, task, life, made, client >>

\* the for loop that tests kthread_should_stop() in every round
sweep_advance_checks_stop(t) ==
    IF t.should_stop THEN [t EXCEPT !.pc = "exited"]
    ELSE IF t.i < NUM_ORDERS THEN [t EXCEPT !.i = @ + 1]
    ELSE [t EXCEPT !.pc = "mark", !.i = 0]

\* i++ of the for loop of ion_sys_heap_worker, and the way out of it
sweep_advance(t) ==
    IF t.i < NUM_ORDERS THEN [t EXCEPT !.i = @ + 1]
    ELSE [t EXCEPT !.pc = "mark", !.i = 0]

\* one round of the for loop of ion_sys_heap_worker. After
\* ion_system_heap_destroy the pool is freed memory: what the thread reads
\* there is any value
WorkerRefill(c) ==
    /\ task[c].pc = "sweep"
    /\ LET pool  == PoolOf(HeapMem, c = 1, task[c].i)
           alive == IF c = 1 THEN life.cached_alive ELSE life.uncached_alive
       IN  /\ \E below \in (IF alive THEN { pool_count_below_lowmark(pool) }
                            ELSE BOOLEAN) :
                \E r \in { IF below THEN ion_page_pool_refill(pool, buddy)
                           ELSE [pool |-> pool, buddy |-> buddy] } :
                    /\ buddy' = r.buddy
                    /\ IF c = 1
                       THEN /\ cached_pools' =
                                    [cached_pools EXCEPT ![task[c].i] = r.pool]
                            /\ UNCHANGED uncached_pools
                       ELSE /\ uncached_pools' =
                                    [uncached_pools EXCEPT ![task[c].i] = r.pool]
                            /\ UNCHANGED cached_pools
           /\ life' = IF alive THEN life ELSE [life EXCEPT !.uaf = TRUE]
    /\ task' = [task EXCEPT ![c] = sweep_advance(@)]
    /\ UNCHANGED << kworker, buffers, max_page_pool_size, pool_auto_refill_en,
                    last, scen, inflight, lone_pool, held, ctx, flushed, made, client >>

worker_rest ==
    << buddy, uncached_pools, cached_pools, kworker, buffers,
       max_page_pool_size, pool_auto_refill_en, last, scen, inflight,
       lone_pool, held, ctx, flushed, life, made, client >>

\* set_current_state(TASK_INTERRUPTIBLE)
WorkerMark(c) ==
    /\ task[c].pc = "mark"
    /\ task' = [task EXCEPT ![c].state = "TASK_INTERRUPTIBLE", ![c].pc = "check"]
    /\ UNCHANGED worker_rest

\* the worker that calls schedule() without the test of kthread_should_stop()
WorkerCheck_ignores_stop(c) ==
    /\ task[c].pc = "check"
    /\ task' = [task EXCEPT ![c].pc = "asleep"]
    /\ UNCHANGED worker_rest

\* if (kthread_should_stop()) { set_current_state(TASK_RUNNING); break; }
\* and the call of schedule()
WorkerCheck(c) ==
    /\ task[c].pc = "check"
    /\ task' = [task EXCEPT ![c] =
                   IF @.should_stop
                   THEN [@ EXCEPT !.state = "TASK_RUNNING", !.pc = "exited"]
                   ELSE [@ EXCEPT !.pc = "asleep"]]
    /\ UNCHANGED worker_rest

\* schedule() returns once the thread's state is TASK_RUNNING;
\* set_current_state(TASK_RUNNING) and the next round of for (;;)
WorkerResume(c) ==
    /\ task[c].pc = "asleep"
    /\ task[c].state = "TASK_RUNNING"
    /\ task' = [task EXCEPT ![c].pc = "sweep", ![c].i = 1,
                            ![c].wake_seen = FALSE]
    /\ UNCHANGED worker_rest

\* ion_system_heap_destroy, called once no buffer is left
Destroy ==
    /\ life.state = "live"
    /\ \A b \in Bufs : buffers[b].state = "none"
    /\ life' = ion_system_heap_destroy(life)
    /\ last' = Call("destroy", 0, 0, "none", 0, NoBuffer)
    /\ UNCHANGED << buddy, uncached_pools, cached_pools, kworker, buffers,
                    max_page_pool_size, pool_auto_refill_en, scen, inflight,
                    lone_pool, held, ctx, flushed, task, made, client >>

NextLife ==
    \/ \E fail \in CreateFailures : Create(fail)
    \/ \E b \in Bufs, rq \in LifeRequests : LifeAllocate(b, rq)
    \/ \E b \in Bufs : LifeRelease(b)
    \/ \E c \in {0, 1} : WorkerRefill(c)
    \/ \E c \in {0, 1} : WorkerMark(c)
    \/ \E c \in {0, 1} : WorkerCheck(c)
    \/ \E c \in {0, 1} : WorkerResume(c)
    \/ Destroy

SpecLife == InitLife /\ [][NextLife]_vars

\* a kthread_stop of a worker by the owner of the heap, at any moment of the
\* life of the heap
StopRequest(c) ==
    /\ life.state = "live"
    /\ Alive(task[c])
    /\ ~task[c].should_stop
    /\ task' = [task EXCEPT ![c] = kthread_stop(@)]
    /\ UNCHANGED worker_rest

NextStop == NextLife \/ \E c \in {0, 1} : StopRequest(c)

SpecStop == InitLife /\ [][NextStop]_vars

\* the scheduler lets every thread that can run take its next step
WorkerStep(c) ==
    WorkerRefill(c) \/ WorkerMark(c) \/ WorkerCheck(c) \/ WorkerResume(c)

SpecLifeFair ==
    SpecLife /\ WF_vars(WorkerStep(0)) /\ WF_vars(WorkerStep(1))

\* ------------------------------------------------------------ the pool locks

\* Each pool operation that the heap calls, split at the pool's lock: the
\* context takes the lock of the one pool it works on, changes the pool's
\* lists and releases the lock; a page goes to or comes from the system
\* page source in a step of its own.
\*   callers:  alloc_buffer_page (ion_page_pool_alloc), then
\*             free_buffer_page (__free_pages or ion_page_pool_free)
\*   shrinker: ion_page_pool_shrink of one pool, one page at a time
\*   worker:   ion_page_pool_refill of one pool below its low watermark

LockPcs == { "alloc_lock", "free_lock", "shrink_lock", "refill_lock" }

LockedPcs == { "alloc_locked", "free_locked", "shrink_locked", "refill_locked" }

SystemPcs == { "alloc_system", "free_system", "shrink_system", "refill_system" }

\* the contexts that hold the lock of a pool
Holder(cached, idx) == { y \in Contexts : << cached, idx >> \in ctx[y].holds }

InitLock ==
    /\ InitHeap(FrameSet)
    /\ max_page_pool_size = 0
    /\ pool_auto_refill_en = TRUE

lock_rest ==
    << kworker, buffers, max_page_pool_size, pool_auto_refill_en, last, scen,
       inflight, lone_pool, held, flushed, task, life, made, client >>

\* a context enters a pool operation on the pool of one cache mode and order
Begin(x, cached, idx) ==
    /\ ctx[x].pc = "idle"
    /\ x = "worker" => pool_count_below_lowmark(PoolOf(HeapMem, cached, idx))
    /\ ctx' = [ctx EXCEPT ![x] =
                  [@ EXCEPT !.cached = cached, !.idx = idx,
                            !.pc = IF x = "worker" THEN "refill_system"
                                   ELSE IF x = "shrinker" THEN "shrink_lock"
                                   ELSE "alloc_lock"]]
    /\ UNCHANGED << buddy, uncached_pools, cached_pools >>
    /\ UNCHANGED lock_rest

\* mutex_lock: the context waits until no other context holds the lock
PoolLock(x) ==
    /\ ctx[x].pc \in LockPcs
    /\ Holder(ctx[x].cached, ctx[x].idx) = {}
    /\ ctx' = [ctx EXCEPT ![x] =
                  [pool_lock(@) EXCEPT !.pc =
                      CASE @ = "alloc_lock" -> "alloc_locked"
                        [] @ = "free_lock" -> "free_locked"
                        [] @ = "shrink_lock" -> "shrink_locked"
                        [] @ = "refill_lock" -> "refill_locked"]]
    /\ UNCHANGED << buddy, uncached_pools, cached_pools >>
    /\ UNCHANGED lock_rest

\* the change of the pool's lists under the lock, and mutex_unlock
PoolCritical(x) ==
    /\ ctx[x].pc \in LockedPcs
    /\ LET me   == ctx[x]
           pool == PoolOf(HeapMem, me.cached, me.idx)
           put(p) == SetMem(SetPool(HeapMem, me.cached, me.idx, p))
       IN  CASE me.pc = "alloc_locked" ->
                  \E r \in { ion_page_pool_alloc(pool, TRUE, {}) } :
                      /\ put(r.pool)
                      /\ ctx' = [ctx EXCEPT ![x] =
                            [pool_unlock(me) EXCEPT
                                !.page = r.page,
                                !.pc = IF r.page = NULL THEN "alloc_system"
                                       ELSE "have"]]
             [] me.pc \in {"free_locked", "refill_locked"} ->
                  /\ put(ion_page_pool_free(pool, me.page))
                  /\ ctx' = [ctx EXCEPT ![x] =
                        [pool_unlock(me) EXCEPT !.page = NULL, !.pc = "idle"]]
             [] me.pc = "shrink_locked" ->
                  IF ion_page_pool_total(pool, TRUE) = 0
                  THEN /\ put(pool)
                       /\ ctx' = [ctx EXCEPT ![x] =
                             [pool_unlock(me) EXCEPT !.pc = "idle"]]
                  ELSE /\ put(pool_evict(pool, {}, 1, 0).pool)
                       /\ ctx' = [ctx EXCEPT ![x] =
                             [pool_unlock(me) EXCEPT
                                 !.page = Head(pool.low_items \o pool.high_items),
                                 !.pc = "shrink_system"]]
    /\ UNCHANGED << buffers, max_page_pool_size, pool_auto_refill_en, last,
                    scen, inflight, lone_pool, held, flushed, task, life, made, client >>

\* alloc_pages or __free_pages
SystemCall(x) ==
    /\ ctx[x].pc \in SystemPcs
    /\ LET me == ctx[x]
       IN  IF me.pc \in {"alloc_system", "refill_system"}
           THEN \E r \in { alloc_pages(buddy, TRUE, orders[me.idx]) } :
                    /\ buddy' = r.buddy
                    /\ ctx' = [ctx EXCEPT ![x] =
                          [me EXCEPT
                              !.page = r.page,
                              !.pc = IF r.page = NULL THEN "idle"
                                     ELSE IF me.pc = "alloc_system" THEN "have"
                                     ELSE "refill_lock"]]
           ELSE /\ buddy' = free_pages_to_buddy(buddy, me.page)
                /\ ctx' = [ctx EXCEPT ![x] =
                      [me EXCEPT !.page = NULL, !.pc = "idle"]]
    /\ UNCHANGED << uncached_pools, cached_pools >>
    /\ UNCHANGED lock_rest

\* free_buffer_page: the page goes back to the system when the buffer is
\* marked ION_PRIV_FLAG_SHRINKER_FREE, and to the pool otherwise
FreeChoice(x, marked) ==
    /\ ctx[x].pc = "have"
    /\ ctx' = [ctx EXCEPT ![x].pc = IF marked THEN "free_system" ELSE "free_lock"]
    /\ UNCHANGED << buddy, uncached_pools, cached_pools >>
    /\ UNCHANGED lock_rest

NextLock ==
    \/ \E x \in Contexts, cached \in BOOLEAN, idx \in 1 .. NUM_ORDERS :
           Begin(x, cached, idx)
    \/ \E x \in Contexts : PoolLock(x)
    \/ \E x \in Contexts : PoolCritical(x)
    \/ \E x \in Contexts : SystemCall(x)
    \/ \E x \in Contexts, marked \in BOOLEAN : FreeChoice(x, marked)

SpecLock == InitLock /\ [][NextLock]_vars

\* ------------------------------------------------------------ interleaved calls

\* Calls of several threads interleave between their accesses to the pools
\* and the system: a step is one alloc_largest_available, one
\* free_buffer_page, one ion_page_pool_shrink or one ion_page_pool_refill.

\* the calls, all of which get past the checks of ion_system_heap_allocate:
\* one page or a block and a page, every flag set; the scatter table of an
\* uncached buffer may fail to build
ConcRequests ==
    { rq \in [size : {1, 16 * PAGE_SIZE + 1}, align : {PAGE_SIZE},
              fl : FlagChoices, table : {"ok", "sg_alloc_table_fails"}] :
          /\ ~align_too_large(rq.align) /\ ~exceeds_half_ram(rq.size)
          /\ rq.table # "ok" => ~rq.fl.cached }

heap_only ==
    << max_page_pool_size, pool_auto_refill_en, last, scen, lone_pool, held, ctx, flushed,
       task, life, made, client >>

\* ion_system_heap_allocate up to the while loop
AllocBegin(b, rq) ==
    /\ buffers[b].state = "none"
    /\ inflight[b].pc = "idle"
    /\ inflight' = [inflight EXCEPT ![b] =
           [pc |-> "alloc",
            buffer |-> [NewBuffer(rq.size, rq.fl) EXCEPT !.private_flags = 0],
            pages |-> << >>, size_remaining |-> PAGE_ALIGN(rq.size),
            max_order |-> orders[1], table |-> rq.table]]
    /\ UNCHANGED << buddy, uncached_pools, cached_pools, kworker, buffers >>
    /\ UNCHANGED heap_only

\* one turn of the while loop that leaves size_remaining as it is
AllocStep_keeps_remaining(b) ==
    /\ inflight[b].pc = "alloc"
    /\ inflight[b].size_remaining > 0
    /\ \E r \in { alloc_largest_available(HeapMem, inflight[b].buffer,
                      inflight[b].size_remaining, inflight[b].max_order) } :
           /\ SetMem(r.m)
           /\ inflight' = [inflight EXCEPT ![b] =
                  IF r.page = NULL
                  THEN [@ EXCEPT !.pc = "unwind", !.buffer = r.buffer]
                  ELSE [@ EXCEPT !.buffer = r.buffer,
                                 !.pages = Append(@, r.page),
                                 !.max_order = r.page.order]]
    /\ UNCHANGED buffers
    /\ UNCHANGED heap_only

\* one turn of the while loop
AllocStep(b) ==
    /\ inflight[b].pc = "alloc"
    /\ inflight[b].size_remaining > 0
    /\ \E r \in { alloc_largest_available(HeapMem, inflight[b].buffer,
                      inflight[b].size_remaining, inflight[b].max_order) } :
           /\ SetMem(r.m)
           /\ inflight' = [inflight EXCEPT ![b] =
                  IF r.page = NULL
                  THEN [@ EXCEPT !.pc = "unwind", !.buffer = r.buffer]
                  ELSE [@ EXCEPT !.buffer = r.buffer,
                                 !.pages = Append(@, r.page),
                                 !.size_remaining = @ - order_to_size(r.page.order),
                                 !.max_order = r.page.order]]
    /\ UNCHANGED buffers
    /\ UNCHANGED heap_only

\* kmalloc, sg_alloc_table and the pass that fills the table
AllocTable(b) ==
    /\ inflight[b].pc = "alloc"
    /\ inflight[b].size_remaining = 0
    /\ IF inflight[b].table = "ok"
       THEN /\ buffers' = [buffers EXCEPT ![b] =
                   [inflight[b].buffer EXCEPT
                       !.sg_table = sg_fill(inflight[b].buffer, inflight[b].pages),
                       !.private_flags = 0,
                       !.state = "live"]]
            /\ inflight' = [inflight EXCEPT ![b] = Idle]
       ELSE /\ inflight' = [inflight EXCEPT ![b].pc = "unwind"]
            /\ UNCHANGED buffers
    /\ UNCHANGED << buddy, uncached_pools, cached_pools, kworker >>
    /\ UNCHANGED heap_only

\* one turn of the loop at free_pages, or the return of -ENOMEM after it
AllocUnwind(b) ==
    /\ inflight[b].pc = "unwind"
    /\ IF inflight[b].pages = << >>
       THEN /\ inflight' = [inflight EXCEPT ![b] = Idle]
            /\ UNCHANGED << buddy, uncached_pools, cached_pools, kworker >>
       ELSE /\ SetMem(free_buffer_page(HeapMem, inflight[b].buffer,
                                       Head(inflight[b].pages)))
            /\ inflight' = [inflight EXCEPT ![b].pages = Tail(@)]
    /\ UNCHANGED buffers
    /\ UNCHANGED heap_only

\* ion_system_heap_free up to the walk over the scatter table
FreeBegin(b) ==
    /\ buffers[b].state = "live"
    /\ inflight[b].pc = "idle"
    /\ \E b2 \in { free_mark_and_zero(HeapMem, buffer_dirtied(buffers[b])) } :
           /\ inflight' = [inflight EXCEPT ![b] =
                  [Idle EXCEPT !.pc = "free",
                               !.buffer = [b2 EXCEPT !.sg_table = NoTable],
                               !.pages = TablePages(b2)]]
           /\ buffers' = [buffers EXCEPT ![b] =
                  [b2 EXCEPT !.sg_table = NoTable, !.state = "freeing"]]
    /\ UNCHANGED << buddy, uncached_pools, cached_pools, kworker >>
    /\ UNCHANGED heap_only

\* the turn of for_each_sg that decides anew, from the pooled total of the
\* moment, whether the page goes to the system
FreeStep_decides_per_page(b) ==
    /\ inflight[b].pc = "free"
    /\ IF inflight[b].pages = << >>
       THEN /\ inflight' = [inflight EXCEPT ![b] = Idle]
            /\ buffers' = [buffers EXCEPT ![b] = NoBuffer]
            /\ UNCHANGED << buddy, uncached_pools, cached_pools, kworker >>
       ELSE /\ SetMem(free_buffer_page(
                          HeapMem,
                          [inflight[b].buffer EXCEPT !.private_flags =
                              IF PooledTotal(HeapMem) > max_page_pool_size
                              THEN ION_PRIV_FLAG_SHRINKER_FREE ELSE 0],
                          Head(inflight[b].pages)))
            /\ inflight' = [inflight EXCEPT ![b].pages = Tail(@)]
            /\ UNCHANGED buffers
    /\ UNCHANGED heap_only

\* one turn of for_each_sg, or sg_free_table and the return after it
FreeStep(b) ==
    /\ inflight[b].pc = "free"
    /\ IF inflight[b].pages = << >>
       THEN /\ inflight' = [inflight EXCEPT ![b] = Idle]
            /\ buffers' = [buffers EXCEPT ![b] = NoBuffer]
            /\ UNCHANGED << buddy, uncached_pools, cached_pools, kworker >>
       ELSE /\ SetMem(free_buffer_page(HeapMem, inflight[b].buffer,
                                       Head(inflight[b].pages)))
            /\ inflight' = [inflight EXCEPT ![b].pages = Tail(@)]
            /\ UNCHANGED buffers
    /\ UNCHANGED heap_only

\* one ion_page_pool_shrink of ion_system_heap_shrink, on the pool of mode
\* cached and index i
ShrinkPool(cached, i, nr_to_scan) ==
    /\ \E r \in { ion_page_pool_shrink(PoolOf(HeapMem, cached, i), buddy,
                                       nr_to_scan) } :
           /\ r.freed > 0
           /\ SetMem([SetPool(HeapMem, cached, i, r.pool) EXCEPT !.buddy = r.buddy])
    /\ UNCHANGED << buffers, inflight >>
    /\ UNCHANGED heap_only

\* one turn of the for loop of ion_sys_heap_worker, on a pool that is below
\* its low mark
RefillPool(c, i) ==
    /\ pool_auto_refill_en
    /\ kworker[c]
    /\ pool_count_below_lowmark(PoolOf(HeapMem, c = 1, i))
    /\ \E r \in { ion_page_pool_refill(PoolOf(HeapMem, c = 1, i), buddy) } :
           /\ r.pool # PoolOf(HeapMem, c = 1, i)
           /\ SetMem([SetPool(HeapMem, c = 1, i, r.pool) EXCEPT !.buddy = r.buddy])
    /\ UNCHANGED << buffers, inflight >>
    /\ UNCHANGED heap_only

\* the worker goes to sleep until the next wake_up_process
WorkerSuspend(c) ==
    /\ pool_auto_refill_en
    /\ kworker[c]
    /\ kworker' = [kworker EXCEPT ![c] = FALSE]
    /\ UNCHANGED << buddy, uncached_pools, cached_pools, buffers, inflight >>
    /\ UNCHANGED heap_only

DoAllocBegin == \E b \in Bufs, rq \in ConcRequests : AllocBegin(b, rq)

DoAllocStep == \E b \in Bufs : AllocStep(b)

DoAllocTable == \E b \in Bufs : AllocTable(b)

DoAllocUnwind == \E b \in Bufs : AllocUnwind(b)

DoFreeBegin == \E b \in Bufs : FreeBegin(b)

DoFreeStep == \E b \in Bufs : FreeStep(b)

DoShrinkPool ==
    \E cached \in BOOLEAN, i \in 1 .. NUM_ORDERS, n \in 1 .. MaxScan :
        ShrinkPool(cached, i, n)

DoRefillPool == \E c \in {0, 1}, i \in 1 .. NUM_ORDERS : RefillPool(c, i)

DoWorkerSuspend == \E c \in {0, 1} : WorkerSuspend(c)

NextConc ==
    \/ DoAllocBegin
    \/ DoAllocStep
    \/ DoAllocTable
    \/ DoAllocUnwind
    \/ DoFreeBegin
    \/ DoFreeStep
    \/ DoShrinkPool
    \/ DoRefillPool
    \/ DoWorkerSuspend

SpecConc == Init /\ [][NextConc]_vars

\* the thread that runs ion_system_heap_allocate on buffer b takes its next
\* step: the call does not block between its turns
CallStep(b) == AllocStep(b) \/ AllocTable(b) \/ AllocUnwind(b)

\* the calls of two threads that allocate uncached buffers of a block and a
\* page, whose scatter table may fail to build
TurnRequests ==
    { rq \in ConcRequests :
          ~rq.fl.cached /\ ~rq.fl.sync_force /\ rq.size > PAGE_SIZE }

InitTurns ==
    /\ InitHeap(FrameSet)
    /\ max_page_pool_size = 0
    /\ pool_auto_refill_en = TRUE

\* the calls of allocate and release of two threads, interleaved at the
\* turns of the loops of allocate and release
NextTurns ==
    \/ \E b \in Bufs, rq \in TurnRequests : AllocBegin(b, rq)
    \/ \E b \in Bufs : AllocStep(b)
    \/ \E b \in Bufs : AllocTable(b)
    \/ \E b \in Bufs : AllocUnwind(b)
    \/ \E b \in Bufs : FreeBegin(b)
    \/ \E b \in Bufs : FreeStep(b)

SpecTurns == InitTurns /\ [][NextTurns]_vars

\* the same under a scheduler that lets every running call of allocate take
\* its next step
SpecTurnsFair == SpecTurns /\ \A b \in Bufs : WF_vars(CallStep(b))

\* ------------------------------------------------------------ a pool on its own

\* single frames of the machine that the lone pool draws from
PoolFrames == 4

heap_vars ==
    << uncached_pools, cached_pools, kworker, buffers, max_page_pool_size,
       pool_auto_refill_en, last, scen, inflight, task, life, ctx,
       flushed, made, client >>

InitPool ==
    /\ InitHeap((16 * NBig) .. (16 * NBig + PoolFrames - 1))
    /\ max_page_pool_size = 0
    /\ pool_auto_refill_en = FALSE

\* a fresh system page is put into the pool
PoolFill ==
    /\ held = NoHold
    /\ \E r \in { alloc_pages(buddy, TRUE, lone_pool.order) } :
           /\ r.page # NULL
           /\ buddy' = r.buddy
           /\ lone_pool' = ion_page_pool_free(lone_pool,
                                              [r.page EXCEPT !.from_buddy = FALSE])
    /\ UNCHANGED held
    /\ UNCHANGED heap_vars

\* a page is taken from the pool, which holds at least one
PoolAcquire ==
    /\ held = NoHold
    /\ ion_page_pool_total(lone_pool, TRUE) >= 1
    /\ \E r \in { ion_page_pool_alloc(lone_pool, TRUE, buddy) } :
           /\ lone_pool' = r.pool
           /\ buddy' = r.buddy
           /\ held' = [page |-> r.page,
                       total |-> ion_page_pool_total(lone_pool, TRUE)]
    /\ UNCHANGED heap_vars

\* the page taken is put back, directly after it was taken
PoolRelease ==
    /\ held # NoHold
    /\ lone_pool' = ion_page_pool_free(lone_pool, held.page)
    /\ held' = NoHold
    /\ UNCHANGED buddy
    /\ UNCHANGED heap_vars

\* pages of the pool are evicted to the system
PoolShrink(nr_to_scan) ==
    /\ held = NoHold
    /\ \E r \in { ion_page_pool_shrink(lone_pool, buddy, nr_to_scan) } :
           /\ r.freed > 0
           /\ lone_pool' = r.pool
           /\ buddy' = r.buddy
    /\ UNCHANGED held
    /\ UNCHANGED heap_vars

DoPoolShrink == \E n \in 1 .. MaxScan : PoolShrink(n)

NextPool == PoolFill \/ PoolAcquire \/ PoolRelease \/ DoPoolShrink

SpecPool == InitPool /\ [][NextPool]_vars

\* ------------------------------------------------------------ a pool with both lists

\* The lone pool when the system hands out pages of both classifications:
\* a fresh page goes on the high or on the low list.

lists_rest ==
    << uncached_pools, cached_pools, kworker, buffers, max_page_pool_size,
       pool_auto_refill_en, scen, inflight, task, life, ctx, flushed, made, client >>

\* a fresh system page is put into the pool
ListFill(high) ==
    /\ held = NoHold
    /\ \E r \in { alloc_pages(buddy, TRUE, lone_pool.order) } :
           /\ r.page # NULL
           /\ buddy' = r.buddy
           /\ lone_pool' = ion_page_pool_add(
                               lone_pool, [r.page EXCEPT !.from_buddy = FALSE], high)
    /\ last' = Call("pool_add", 0, 0, "none", 0, NoBuffer)
    /\ UNCHANGED held
    /\ UNCHANGED lists_rest

\* ion_page_pool_alloc: a page is taken from the pool, or from the system
\* when the pool is empty
ListAcquire ==
    /\ held = NoHold
    /\ \E r \in { ion_page_pool_alloc(lone_pool, TRUE, buddy) } :
           /\ r.page # NULL
           /\ lone_pool' = r.pool
           /\ buddy' = r.buddy
           /\ held' = [page |-> r.page,
                       total |-> ion_page_pool_total(lone_pool, TRUE)]
    /\ last' = Call("pool_alloc", 0, 0, "none", 0, NoBuffer)
    /\ UNCHANGED lists_rest

\* the page taken goes back to the system
ListDrop ==
    /\ held # NoHold
    /\ buddy' = free_pages_to_buddy(buddy, held.page)
    /\ held' = NoHold
    /\ last' = Call("pool_drop", 0, 0, "none", 0, NoBuffer)
    /\ UNCHANGED lone_pool
    /\ UNCHANGED lists_rest

\* ion_page_pool_shrink with nr_to_scan > 0
ListShrink(nr_to_scan) ==
    /\ held = NoHold
    /\ \E r \in { ion_page_pool_shrink(lone_pool, buddy, nr_to_scan) } :
           /\ lone_pool' = r.pool
           /\ buddy' = r.buddy
           /\ last' = Call("pool_shrink", nr_to_scan, r.freed, "none", 0, NoBuffer)
    /\ UNCHANGED held
    /\ UNCHANGED lists_rest

NextLists ==
    \/ \E high \in BOOLEAN : ListFill(high)
    \/ ListAcquire
    \/ ListDrop
    \/ \E n \in 1 .. MaxScan : ListShrink(n)

SpecLists == InitPool /\ [][NextLists]_vars

\* ------------------------------------------------------------ observations

PoolItems(pool) == pool.low_items \o pool.high_items

RECURSIVE PoolsItemsFrom(_, _)
PoolsItemsFrom(i, pools) ==
    IF i > NUM_ORDERS THEN << >>
    ELSE PoolItems(pools[i]) \o PoolsItemsFrom(i + 1, pools)

\* every page held by a pool
PooledPages == PoolsItemsFrom(1, uncached_pools) \o PoolsItemsFrom(1, cached_pools)

PooledAddrs == { PooledPages[i].addr : i \in 1 .. Len(PooledPages) }

\* the pages held by the pools of one cache mode
ModePages(cached) ==
    PoolsItemsFrom(1, IF cached THEN cached_pools ELSE uncached_pools)

RECURSIVE SumBytes(_)
\* the byte size of a list of pages
SumBytes(pages) ==
    IF pages = << >> THEN 0
    ELSE order_to_size(Head(pages).order) + SumBytes(Tail(pages))

IsAllocate(c) == c.op = "allocate"

IsFree(c) == c.op = "free"

\* whether ion_system_heap_free marked the buffer for direct system return
ShrinkerFree(buffer) ==
    (buffer.private_flags \div ION_PRIV_FLAG_SHRINKER_FREE) % 2 = 1

\* ------------------------------------------------------------ C2

\* C2: every buffer that allocate returned with success has backing pages
\* whose byte sizes (PAGE_SIZE << order) sum to exactly PAGE_ALIGN(size).
C2_SizesSumToAlignedSize ==
    \A b \in Bufs :
        buffers[b].state = "live" =>
            /\ buffers[b].sg_table # NoTable
            /\ SumBytes(TablePages(buffers[b])) = PAGE_ALIGN(buffers[b].size)
            /\ \A i \in 1 .. Len(buffers[b].sg_table) :
                   buffers[b].sg_table[i].length
                       = order_to_size(buffers[b].sg_table[i].page.order)

\* a buffer of a size that is not a multiple of the page size, backed by a
\* superpage and a single page
C2_Witness ==
    \E b \in Bufs :
        /\ buffers[b].state = "live"
        /\ buffers[b].size % PAGE_SIZE # 0
        /\ Len(buffers[b].sg_table) = 2
        /\ buffers[b].sg_table[1].page.order = 4
        /\ buffers[b].sg_table[2].page.order = 0

\* ------------------------------------------------------------ C3

\* pages of an order that the pool of a cache mode and the system can supply
Avail(cached, order) ==
    Len(PoolItems(PoolOf(HeapMem, cached, order_to_index(order))))
        + Cardinality(FreeBlocks(buddy, order))

\* whether superpages first and single pages for the rest cover the request
Supply(cached, size) ==
    LET need == PAGE_ALIGN(size) \div PAGE_SIZE
        a4   == Avail(cached, 4)
        n4   == IF need \div 16 <= a4 THEN need \div 16 ELSE a4
    IN  need - 16 * n4 <= Avail(cached, 0)

TableFailed(c) == c.exit \in {"kmalloc_fails", "sg_alloc_table_fails"}

\* C3 as stated, the half "it never succeeds when the free system pages are
\* insufficient": an allocate with a valid alignment succeeds only if the
\* pages free in the system when it is called cover PAGE_ALIGN(size).
C3_SucceedsOnlyIfSystemPagesSuffice ==
    [][ (IsAllocate(last') /\ last'.align <= PAGE_SIZE /\ last'.ret = 0) =>
            Cardinality(buddy) * PAGE_SIZE >= PAGE_ALIGN(last'.buffer.size)
      ]_vars

\* C3 amended: an allocate with a valid alignment succeeds if and only if the
\* request passes the half-of-memory guard, the scatter table is built, and
\* the pool of the buffer's cache mode together with the system supplies,
\* largest order first, a page of a fitting order at every step; pooled pages
\* count, pages of the other cache mode's pools do not.
C3_SucceedsIffSourcesSupply ==
    [][ (IsAllocate(last') /\ last'.align <= PAGE_SIZE) =>
            ( (last'.ret = 0) <=>
              ( /\ last'.buffer.size \div PAGE_SIZE <= HalfRam
                /\ ~TableFailed(last')
                /\ Supply(last'.buffer.cached, last'.buffer.size) ) )
      ]_vars

\* an allocate found no page of a fitting order although the pools of the
\* other cache mode hold pages
C3_Witness ==
    /\ IsAllocate(last)
    /\ last.exit = "no_page"
    /\ Len(ModePages(~last.buffer.cached)) > 0

\* ------------------------------------------------------------ C4

\* the frames held by the system or by a pool
HeapFrameSet ==
    buddy \cup UNION { PageFrames(PooledPages[i]) : i \in 1 .. Len(PooledPages) }

\* the number of frames held by the system or by a pool, a frame held twice
\* counted twice
HeapFrameCount == Cardinality(buddy) + SumBytes(PooledPages) \div PAGE_SIZE

PastChecks(c) == c.exit \in {"no_page", "kmalloc_fails", "sg_alloc_table_fails"}

\* C4: an allocate that fails after its argument checks (no page of a fitting
\* order, or no scatter table) returns -ENOMEM, leaves the buffer without a
\* scatter table and hands no buffer to the caller, and every page it
\* acquired is back in a pool or in the system: the frames held by the system
\* and the pools are those held before the call.
C4_FailedAllocateUnwinds ==
    [][ (IsAllocate(last') /\ PastChecks(last')) =>
            /\ last'.ret = -ENOMEM
            /\ last'.buffer.sg_table = NoTable
            /\ buffers' = buffers
            /\ HeapFrameSet' = HeapFrameSet
            /\ HeapFrameCount' = HeapFrameCount
      ]_vars

\* an allocate failed after it had taken a superpage and a single page from
\* the system
C4_Witness ==
    /\ IsAllocate(last)
    /\ PastChecks(last)
    /\ last.buffer.private_flags = 17

\* ------------------------------------------------------------ C5

HeapUnchanged ==
    UNCHANGED << buddy, uncached_pools, cached_pools, kworker, buffers >>

\* C5: an allocate with an alignment above PAGE_SIZE returns -EINVAL and
\* changes no pool, no system page, no wake state and no buffer; an alignment
\* of exactly PAGE_SIZE is not rejected for its alignment.
C5_AlignmentAbovePageRejected ==
    [][ IsAllocate(last') =>
            /\ last'.align > PAGE_SIZE =>
                   /\ last'.ret = -EINVAL
                   /\ HeapUnchanged
                   /\ last'.buffer.sg_table = NoTable
                   /\ last'.buffer.private_flags = 0
            /\ last'.align <= PAGE_SIZE => last'.exit # "align" /\ last'.ret # -EINVAL
      ]_vars

\* an allocate with an alignment above PAGE_SIZE was rejected while a pool
\* held a page
C5_Witness ==
    /\ IsAllocate(last)
    /\ last.align > PAGE_SIZE
    /\ last.ret = -EINVAL
    /\ Len(PooledPages) > 0

\* ------------------------------------------------------------ C6

\* C6 as stated: an allocate (valid alignment) whose page count
\* PAGE_ALIGN(size) / PAGE_SIZE exceeds half of the machine's pages returns
\* -ENOMEM, has taken no page from the system (private_flags counts none) and
\* changes no pool and no system page.
C6_PageCountAboveHalfRejected ==
    [][ ( /\ IsAllocate(last')
          /\ last'.align <= PAGE_SIZE
          /\ 2 * (PAGE_ALIGN(last'.buffer.size) \div PAGE_SIZE) > TotalRam ) =>
            /\ last'.ret = -ENOMEM
            /\ last'.buffer.private_flags = 0
            /\ UNCHANGED << buddy, uncached_pools, cached_pools, buffers >>
      ]_vars

\* C6 amended: the guard compares size / PAGE_SIZE, rounded down, with
\* totalram / 2, rounded down.  A request above that returns -ENOMEM by the
\* guard and changes nothing; a request at or below it, a size of half of
\* memory and a few bytes included, passes the guard.
C6_WholePagesAboveHalfRejected ==
    [][ (IsAllocate(last') /\ last'.align <= PAGE_SIZE) =>
            /\ last'.buffer.size \div PAGE_SIZE > HalfRam =>
                   /\ last'.ret = -ENOMEM
                   /\ last'.exit = "totalram"
                   /\ HeapUnchanged
                   /\ last'.buffer.sg_table = NoTable
            /\ last'.buffer.size \div PAGE_SIZE <= HalfRam =>
                   last'.exit # "totalram"
      ]_vars

\* the guard rejected a request while a pool held a page
C6_Witness ==
    /\ IsAllocate(last)
    /\ last.exit = "totalram"
    /\ last.buffer.size \div PAGE_SIZE = HalfRam + 1
    /\ Len(PooledPages) > 0

\* ------------------------------------------------------------ C7

\* C7: a release reads the pooled total of the four pools at its start.  Above
\* max_page_pool_size, every backing page goes to the system and no pool
\* changes.  At or below it, every backing page enters a pool and none goes
\* to the system, so the pooled total grows by the number of backing pages,
\* past the ceiling if need be.
C7_ReleaseDecidedByPooledTotal ==
    [][ IsFree(last') =>
            LET total == PooledTotal(HeapMem)
                pages == [i \in 1 .. Len(last'.buffer.sg_table) |->
                             last'.buffer.sg_table[i].page]
            IN  IF total > max_page_pool_size
                THEN /\ ShrinkerFree(last'.buffer)
                     /\ UNCHANGED << uncached_pools, cached_pools >>
                     /\ buddy' = buddy \cup UNION { PageFrames(pages[i]) :
                                                       i \in 1 .. Len(pages) }
                ELSE /\ ~ShrinkerFree(last'.buffer)
                     /\ buddy' = buddy
                     /\ PooledTotal(HeapMem)' = total + Len(pages)
                     /\ PooledAddrs' = PooledAddrs
                                         \cup { pages[i].addr : i \in 1 .. Len(pages) }
      ]_vars

\* a release found the pooled total at the ceiling, recycled its two pages
\* and left the pooled total above the ceiling
C7_Witness ==
    /\ IsFree(last)
    /\ ~ShrinkerFree(last.buffer)
    /\ Len(last.buffer.sg_table) = 2
    /\ PooledTotal(HeapMem) > max_page_pool_size
    /\ PooledTotal(HeapMem) - 2 = max_page_pool_size

\* ------------------------------------------------------------ C8

FirstOrder(size) == IF PAGE_ALIGN(size) >= order_to_size(4) THEN 4 ELSE 0

SameRequest(c, d) ==
    /\ d.buffer.size = c.buffer.size
    /\ d.buffer.cached = c.buffer.cached

FromPool(buffer) ==
    \E i \in 1 .. Len(buffer.sg_table) : buffer.sg_table[i].page.addr \in PooledAddrs

\* C9 as stated: an allocate that directly follows a release and asks for the
\* same size and cache mode takes at least one page of its buffer from a pool.
C9_ReallocateTakesFromPool ==
    [][ (IsFree(last) /\ IsAllocate(last') /\ last'.ret = 0
            /\ SameRequest(last, last')) =>
            FromPool(last'.buffer)
      ]_vars

\* every frame has one holder: the system, one place in one pool list, or one
\* place in one buffer
RECURSIVE BufferPagesFrom(_)
BufferPagesFrom(b) ==
    IF b > NBufs THEN << >>
    ELSE TablePages(buffers[b]) \o BufferPagesFrom(b + 1)

RECURSIVE InflightPagesFrom(_)
InflightPagesFrom(b) ==
    IF b > NBufs THEN << >>
    ELSE inflight[b].pages \o InflightPagesFrom(b + 1)

\* the number of holders of frame f
Holders(f) ==
    LET owned == PooledPages \o BufferPagesFrom(1) \o InflightPagesFrom(1)
    IN  (IF f \in buddy THEN 1 ELSE 0)
            + Cardinality({ i \in 1 .. Len(owned) : f \in PageFrames(owned[i]) })

\* C9 amended: when the release recycled the buffer (the pooled total it read
\* was not above the ceiling), cache-mode forcing did not apply, and the
\* released buffer's first page has the order that allocate tries first, an
\* allocate that directly follows and asks for the same size and cache mode
\* takes at least one page of its buffer from a pool, and every frame has
\* exactly one holder afterwards.
C9_ReallocateAfterRecycleTakesFromPool ==
    [][ (IsFree(last) /\ IsAllocate(last') /\ last'.ret = 0
            /\ SameRequest(last, last')
            /\ ~ShrinkerFree(last.buffer)
            /\ ~(last.buffer.cached /\ last.buffer.sync_force)
            /\ last.buffer.sg_table[1].page.order = FirstOrder(last.buffer.size)) =>
            /\ FromPool(last'.buffer)
            /\ \A f \in FrameSet \cup {SpareFrame} : Holders(f)' = 1
      ]_vars

\* an allocate of one uncached page directly after the release of a buffer of
\* one uncached page
C9_Witness == scen = 1 /\ IsAllocate(last) /\ last.ret = 0

\* ------------------------------------------------------------ C10

Occurrences(items, page) ==
    Cardinality({ i \in 1 .. Len(items) : items[i].addr = page.addr })

\* C10: when a page is taken from a pool that holds at least one page and is
\* put back directly, the pool's total count (low_count + high_count) is what
\* it was before the page was taken, and the page is exactly once in the
\* pool's low and high lists together.
C10_PoolRoundTrip ==
    [][ (held # NoHold /\ held' = NoHold) =>
            /\ ion_page_pool_total(lone_pool', TRUE) = held.total
            /\ lone_pool'.low_count + lone_pool'.high_count = held.total
            /\ Occurrences(PoolItems(lone_pool'), held.page) = 1
      ]_vars

\* a page taken from a pool of three pages is back in the pool, which again
\* holds three
C10_Witness ==
    /\ held = NoHold
    /\ ion_page_pool_total(lone_pool, TRUE) = 3
    /\ lone_pool.low_items[3].addr < lone_pool.low_items[2].addr

\* ------------------------------------------------------------ C1

\* C1: in every state that interleaved allocate, release, worker refill and
\* shrink calls reach, every page frame has exactly one holder: the system
\* allocator, one place in one pool, or one place in one buffer (its scatter
\* table, or the page list of the call that is building or releasing it).
C1_ExclusiveOwnership == \A f \in FrameSet : Holders(f) = 1

\* one call holds a page it has just acquired while another call is halfway
\* through a release, and a pool holds a page
C1_Witness ==
    \E b \in Bufs, c \in Bufs :
        /\ b # c
        /\ inflight[b].pc = "alloc"
        /\ inflight[b].pages # << >>
        /\ inflight[c].pc = "free"
        /\ PooledPages # << >>

\* ------------------------------------------------------------ C11

IsShrink(c) == c.op = "shrink"

\* C11: a shrink called with nr_to_scan = 0 returns the sum of the total
\* counts of the four pools and changes no pool, no system page and no
\* buffer; a second such call directly after the first returns the same
\* value.
C11_ScanOnlyShrinkIsPure ==
    [][ (IsShrink(last') /\ last'.buf = 0) =>
            /\ last'.ret = PooledTotal(HeapMem)
            /\ HeapUnchanged
            /\ (IsShrink(last) /\ last.buf = 0) => last'.ret = last.ret
      ]_vars

\* a scan-only shrink reported pages in pools of both cache modes
C11_Witness ==
    /\ IsShrink(last)
    /\ last.buf = 0
    /\ last.ret = 2
    /\ Len(ModePages(TRUE)) = 1
    /\ Len(ModePages(FALSE)) = 1

\* ------------------------------------------------------------ C12

\* the call got as far as the loop over the orders
EnteredLoop(c) == c.exit \notin {"align", "totalram"}

\* the call made an acquire attempt on the pool of the largest order
TriedLargest(c) ==
    EnteredLoop(c) /\ PAGE_ALIGN(c.buffer.size) >= order_to_size(orders[1])

\* C12: with auto-refill enabled, an allocate whose acquire attempt on the
\* pool of the large order leaves that pool below its low watermark has
\* recorded a wake of the worker of the buffer's cache mode; an allocate that
\* tries only the order-0 pool records no wake, no allocate records a wake of
\* the worker of the other cache mode, and with auto-refill disabled no wake
\* is recorded at all.
C12_WakeRecordedForLargeOrderOnly ==
    [][ IsAllocate(last') =>
          LET cached == ion_buffer_cache_clean_on_alloc(last'.buffer)
              k      == KthreadIndex(cached)
              before == PoolOf(HeapMem, cached, order_to_index(orders[1]))
          IN  /\ ( pool_auto_refill_en /\ TriedLargest(last')
                   /\ ion_page_pool_total(before, TRUE) <= LowMark )
                    => kworker'[k]
              /\ kworker'[k] # kworker[k]
                    => pool_auto_refill_en /\ TriedLargest(last')
              /\ kworker'[1 - k] = kworker[1 - k]
      ]_vars

\* a cached allocate tried the large-order cached pool, left it below its
\* low watermark, and the wake of the cached worker alone is recorded
C12_Witness ==
    /\ IsAllocate(last)
    /\ last.exit = "success"
    /\ last.buffer.cached
    /\ TriedLargest(last)
    /\ pool_count_below_lowmark(cached_pools[order_to_index(orders[1])])
    /\ kworker[1]
    /\ ~kworker[0]

\* ------------------------------------------------------------ C14

\* pages the step evicted from the pool of one cache mode and one index of
\* the orders array
Evicted(cached, idx) ==
    ion_page_pool_total(PoolOf(HeapMem, cached, idx), TRUE)
        - ion_page_pool_total(PoolOf(HeapMem, cached, idx), TRUE)'

\* the pool holds no page
Drained(cached, idx) == ion_page_pool_total(PoolOf(HeapMem, cached, idx), TRUE) = 0

SmallIdx == order_to_index(orders[NUM_ORDERS])

LargeIdx == order_to_index(orders[1])

\* C14: a shrink with nr_to_scan > 0 drains the pools in the order order-0
\* uncached, order-0 cached, order-4 uncached, order-4 cached, and a pool is
\* touched only while the pools before it evicted fewer pages than requested:
\* the cached pool of an order loses a page only if the uncached pool of that
\* order did not satisfy what was left of the request, an order-4 pool loses
\* a page only if the two order-0 pools together evicted fewer than
\* requested, and each pool that loses a page finds the pool before it
\* drained; the shrink evicts as many pages as requested unless the pools
\* run empty first, and returns the number evicted.
C14_ShrinkSmallestOrderFirst ==
    [][ (IsShrink(last') /\ last'.buf > 0) =>
          LET n  == last'.buf
              u0 == Evicted(FALSE, SmallIdx)
              c0 == Evicted(TRUE, SmallIdx)
              u4 == Evicted(FALSE, LargeIdx)
              c4 == Evicted(TRUE, LargeIdx)
          IN  /\ u0 >= 0 /\ c0 >= 0 /\ u4 >= 0 /\ c4 >= 0
              /\ c0 > 0 => u0 < n /\ Drained(FALSE, SmallIdx)'
              /\ u4 > 0 => u0 + c0 < n /\ Drained(TRUE, SmallIdx)'
              /\ c4 > 0 => u0 + c0 + u4 < n /\ Drained(FALSE, LargeIdx)'
              /\ last'.ret = u0 + c0 + u4 + c4
              /\ last'.ret <= n
              /\ last'.ret < n => PooledTotal(HeapMem)' = 0
      ]_vars

\* a shrink of one page found a page in every order-0 pool and in an order-4
\* pool, took the uncached order-0 page and left the others
C14_Witness ==
    /\ IsShrink(last)
    /\ last.buf = 1
    /\ last.ret = 1
    /\ ion_page_pool_total(uncached_pools[SmallIdx], TRUE) = 0
    /\ ion_page_pool_total(cached_pools[SmallIdx], TRUE) = 1
    /\ ion_page_pool_total(uncached_pools[LargeIdx], TRUE)
         + ion_page_pool_total(cached_pools[LargeIdx], TRUE) = 1
    /\ Cardinality(buddy) = 1

\* ------------------------------------------------------------ C13

TableOrders(buffer) ==
    [i \in 1 .. Len(buffer.sg_table) |-> buffer.sg_table[i].page.order]

SeventeenPages(buffer) == PAGE_ALIGN(buffer.size) = 17 * PAGE_SIZE

Copies(list, addr) ==
    { list[i] : i \in { j \in 1 .. Len(list) : list[j].addr = addr } }

ModePools(c) == IF c = 1 THEN cached_pools ELSE uncached_pools

\* C15: a worker inside its sweep goes on to the next pool, and leaves the
\* sweep only after the last pool, whether or not a stop was requested; it
\* leaves its loop only at the test that follows
\* set_current_state(TASK_INTERRUPTIBLE), with the stop flag set (or is
\* stopped before it ever ran); once it has left the loop it takes no
\* further step, and the pools of its cache mode change only through calls
\* of the heap.
C15_StopHonoredAtSuspendPointOnly ==
    [][ \A c \in {0, 1} :
          /\ task[c].pc = "sweep" =>
                \/ task'[c].pc = "sweep" /\ task'[c].i = task[c].i
                \/ task'[c].pc = "sweep" /\ task'[c].i = task[c].i + 1
                \/ task'[c].pc = "mark" /\ task[c].i = NUM_ORDERS
          /\ (task'[c].pc = "exited" /\ task[c].pc # "exited") =>
                \/ task[c].pc = "check" /\ task[c].should_stop
                \/ task[c].pc \in {"none", "created"}
          /\ task[c].pc = "exited" =>
                /\ task'[c] = task[c]
                /\ ModePools(c)' # ModePools(c) => last' # last
      ]_vars

\* a worker has left its loop after a stop that reached it after it began
\* its last sweep, and a page that it put into a pool is there
C15_Witness ==
    \E c \in {0, 1} :
        /\ task[c].pc = "exited"
        /\ task[c].should_stop
        /\ task[c].wake_seen
        /\ ModePools(c)[LargeIdx].low_count + ModePools(c)[LargeIdx].high_count > 0

\* ------------------------------------------------------------ C16

\* C16: while the heap is in use, a wake posted for a worker at any point of
\* its cycle is followed by a sweep of that worker that starts after the
\* wake.
C16_WakeLeadsToSweep ==
    \A c \in {0, 1} :
        (life.state = "live" /\ task[c].wake_seen)
            ~> (life.state # "live" \/ ~task[c].wake_seen)

\* ------------------------------------------------------------ C17

\* the thread runs or is about to
Runnable(t) ==
    \/ t.pc \in {"sweep", "mark", "check"}
    \/ t.pc = "asleep" /\ t.state = "TASK_RUNNING"

\* C17: once ion_system_heap_destroy has destroyed the pools, no worker is
\* running and no worker has read a destroyed pool.
C17_WorkersStoppedBeforePoolsDestroyed ==
    life.state = "destroyed" =>
        /\ \A c \in {0, 1} : ~Runnable(task[c])
        /\ ~life.uaf

\* ------------------------------------------------------------ C18

\* the failure the caller of ion_system_heap_create injected is one that the
\* call runs into
Effective(fail) ==
    \/ fail \in {"kzalloc", "uncached_pools", "cached_pools"}
    \/ fail # "none" /\ pool_auto_refill_en

\* C18: ion_system_heap_create fails exactly when one of its allocations,
\* pool creations or (with auto-refill enabled) worker creations fails; a
\* failed create returns an error, does not set system_heap, leaves no pool
\* and no live worker thread. With auto-refill disabled no worker thread is
\* ever created.
C18_FailedCreateLeavesNothing ==
    /\ life.state = "failed" =>
          /\ life.ret < 0
          /\ ~life.system_heap
          /\ ~life.uncached_alive /\ ~life.cached_alive
          /\ \A c \in {0, 1} : ~Alive(task[c])
    /\ last.op = "create" =>
          /\ (life.state = "failed") = Effective(last.exit)
          /\ (life.state = "live") = ~Effective(last.exit)
          /\ life.state = "live" =>
                /\ life.ret = 0 /\ life.system_heap
                /\ life.uncached_alive /\ life.cached_alive
    /\ ~pool_auto_refill_en => \A c \in {0, 1} : task[c].pc = "none"

\* the second worker could not be given its priority: the create failed and
\* both threads, the first one included, have ended
C18_Witness ==
    /\ life.state = "failed"
    /\ last.exit = "cached_sched_setattr"
    /\ task[0].pc = "exited"
    /\ task[1].pc = "exited"

\* ------------------------------------------------------------ C20

\* C20: at every point of the pool operations of allocate, release, refill
\* and shrink, a context holds at most one pool lock, holds a lock only
\* while it changes that pool's lists, and holds none during a system page
\* allocation or free; a lock has at most one holder, and a context that
\* waits for a lock waits for a holder that is not itself waiting, so no two
\* contexts wait for each other.
C20_AtMostOnePoolLock ==
    /\ \A x \in Contexts :
          /\ Cardinality(ctx[x].holds) <= 1
          /\ ctx[x].pc \in SystemPcs => ctx[x].holds = {}
          /\ ctx[x].holds # {} => ctx[x].pc \in LockedPcs
          /\ ctx[x].pc \in LockPcs =>
                \A y \in Holder(ctx[x].cached, ctx[x].idx) :
                    ctx[y].pc \in LockedPcs
    /\ \A cached \in BOOLEAN, idx \in 1 .. NUM_ORDERS :
          Cardinality(Holder(cached, idx)) <= 1

\* one caller holds the lock of a pool, the other caller waits for the same
\* lock, the shrinker holds the lock of another pool, and the worker is in
\* the system page allocator
C20_Witness ==
    /\ ctx["caller1"].pc \in LockedPcs
    /\ ctx["caller2"].pc \in LockPcs
    /\ ctx["caller2"].cached = ctx["caller1"].cached
    /\ ctx["caller2"].idx = ctx["caller1"].idx
    /\ ctx["shrinker"].pc = "shrink_locked"
    /\ ctx["shrinker"].holds # ctx["caller1"].holds
    /\ ctx["worker"].pc \in SystemPcs

\* ------------------------------------------------------------ C21

\* the orders of a list of pages never go up
NonIncreasing(pages) ==
    \A i \in 1 .. Len(pages) : \A j \in i .. Len(pages) :
        pages[i].order >= pages[j].order

\* C21: during one allocate call max_order is the largest order of the table
\* before the first acquisition and the order of the last page acquired after
\* it; the orders of the pages of the call, and of the buffer it returns,
\* never go up; and a turn of the loop that follows an order-0 page takes an
\* order-0 page or none, and leaves the order-4 pools, the order-4 blocks of
\* the system and the wake state as they are, whatever size remains.
C21_MaxOrderNeverGrows ==
    [][ /\ \A b \in Bufs :
              /\ inflight'[b].pc = "alloc" =>
                    /\ inflight'[b].max_order =
                          IF inflight'[b].pages = << >> THEN orders[1]
                          ELSE inflight'[b].pages[Len(inflight'[b].pages)].order
                    /\ NonIncreasing(inflight'[b].pages)
              /\ buffers'[b].state = "live" =>
                    NonIncreasing(TablePages(buffers'[b]))
        /\ \A b \in Bufs :
              ( /\ inflight[b].pc = "alloc"
                /\ inflight[b].pages # << >>
                /\ inflight[b].pages[Len(inflight[b].pages)].order = 0
                /\ inflight[b].size_remaining > 0
                /\ inflight'[b] # inflight[b] ) =>
                  /\ \A i \in 1 .. Len(inflight'[b].pages) :
                         i > Len(inflight[b].pages) =>
                             inflight'[b].pages[i].order = 0
                  /\ uncached_pools'[LargeIdx] = uncached_pools[LargeIdx]
                  /\ cached_pools'[LargeIdx] = cached_pools[LargeIdx]
                  /\ FreeBlocks(buddy', orders[1]) = FreeBlocks(buddy, orders[1])
                  /\ kworker' = kworker
      ]_vars

\* a call that took an order-0 page first and still needed 16 pages has
\* found no page in its next turn, although an order-4 chunk had become
\* available to it in the meantime
C21_Witness ==
    \E b \in Bufs :
        /\ inflight[b].pc = "unwind"
        /\ inflight[b].table = "ok"
        /\ Len(inflight[b].pages) = 1
        /\ inflight[b].pages[1].order = 0
        /\ inflight[b].size_remaining = order_to_size(orders[1])
        /\ \/ FreeBlocks(buddy, orders[1]) # {}
           \/ ion_page_pool_total(
                  PoolOf(HeapMem, ion_buffer_cache_clean_on_alloc(
                                      inflight[b].buffer), LargeIdx), TRUE) > 0

\* ------------------------------------------------------------ C22

\* pages that a call of allocate asks for: PAGE_ALIGN(size) / PAGE_SIZE
PagesAsked(l) == PAGE_ALIGN(l.buffer.size) \div PAGE_SIZE

\* C22: every allocate call terminates. A turn of the loop either finds no
\* page, and the call goes to its unwind and returns, or it appends one page
\* and lowers size_remaining by at least PAGE_SIZE, never below zero; the
\* pages acquired and size_remaining add up to PAGE_ALIGN(size), so a call
\* makes at most PAGE_ALIGN(size) / PAGE_SIZE acquisitions; and every call
\* that has started comes to its end.
C22_AllocateTerminates ==
    /\ [][ \A b \in Bufs :
              /\ inflight'[b].pc = "alloc" =>
                    /\ inflight'[b].size_remaining >= 0
                    /\ SumBytes(inflight'[b].pages) + inflight'[b].size_remaining
                           = PAGE_ALIGN(inflight'[b].buffer.size)
                    /\ Len(inflight'[b].pages) <= PagesAsked(inflight'[b])
              /\ ( /\ inflight[b].pc = "alloc"
                   /\ inflight[b].size_remaining > 0
                   /\ inflight'[b] # inflight[b] ) =>
                     \/ /\ inflight'[b].pc = "unwind"
                        /\ inflight'[b].pages = inflight[b].pages
                     \/ /\ inflight'[b].pc = "alloc"
                        /\ Len(inflight'[b].pages) = Len(inflight[b].pages) + 1
                        /\ inflight'[b].size_remaining
                               <= inflight[b].size_remaining - PAGE_SIZE
         ]_vars
    /\ \A b \in Bufs :
           (inflight[b].pc \in {"alloc", "unwind"}) ~> (inflight[b].pc = "idle")

\* a call of 17 pages that has acquired two pages and has nothing left to
\* acquire
C22_Witness ==
    \E b \in Bufs :
        /\ inflight[b].pc = "alloc"
        /\ PagesAsked(inflight[b]) = 17
        /\ Len(inflight[b].pages) = 2
        /\ inflight[b].size_remaining = 0

\* ------------------------------------------------------------ C23

IsSweep(c) == c.op = "sweep"

Addrs(pages) == [i \in 1 .. Len(pages) |-> pages[i].addr]

\* the pages of a list that have a given order, in list order
OfOrder(pages, order) == SelectSeq(pages, LAMBDA p : p.order = order)

\* C24: a release of a buffer that is not marked for direct system return
\* appends every backing page to the pool of the page's own order, in the
\* uncached pools when the buffer is uncached or is cached with cache-mode
\* forcing, in the cached pools when it is cached without forcing; the pools
\* of the other cache mode and the system are left as they are; the pages
\* are flushed exactly when the buffer is cached with forcing. A release of
\* a marked buffer flushes nothing, changes no pool and gives every page to
\* the system.
C24_ReleaseSelectsPoolByForcedMode ==
    [][ IsFree(last') =>
          LET buf    == last'.buffer
              pages  == TablePages(buf)
              target == buf.cached /\ ~buf.sync_force
              after  == HeapMem'
          IN  IF ShrinkerFree(buf)
              THEN /\ flushed' = {}
                   /\ uncached_pools' = uncached_pools
                   /\ cached_pools' = cached_pools
                   /\ buddy' = buddy \cup
                          UNION { PageFrames(pages[i]) : i \in 1 .. Len(pages) }
              ELSE /\ flushed' = IF buf.cached /\ buf.sync_force
                                 THEN { pages[i].addr : i \in 1 .. Len(pages) }
                                 ELSE {}
                   /\ buddy' = buddy
                   /\ \A i \in 1 .. NUM_ORDERS :
                        /\ PoolOf(after, ~target, i) = PoolOf(HeapMem, ~target, i)
                        /\ Addrs(PoolItems(PoolOf(after, target, i))) =
                               Addrs(PoolItems(PoolOf(HeapMem, target, i)))
                                   \o Addrs(OfOrder(pages, orders[i]))
                        /\ ion_page_pool_total(PoolOf(after, target, i), TRUE) =
                               ion_page_pool_total(PoolOf(HeapMem, target, i), TRUE)
                                   + Len(OfOrder(pages, orders[i]))
      ]_vars

\* a cached buffer of a block and a page with cache-mode forcing was
\* released: both pages were flushed and are in the uncached pools, the
\* cached pools are empty
C24_Witness ==
    /\ IsFree(last)
    /\ last.buffer.cached /\ last.buffer.sync_force
    /\ ~ShrinkerFree(last.buffer)
    /\ Len(last.buffer.sg_table) = 2
    /\ Cardinality(flushed) = 2
    /\ ion_page_pool_total(uncached_pools[LargeIdx], TRUE) = 1
    /\ ion_page_pool_total(uncached_pools[SmallIdx], TRUE) = 1
    /\ Len(ModePages(TRUE)) = 0

\* ------------------------------------------------------------ C25

\* C25: in every reachable state every page held in a pool is zeroed, and
\* every page of a live buffer that asked for zeroed memory was zeroed when
\* the buffer got it.
C25_PooledPagesAreZeroed ==
    /\ \A i \in 1 .. Len(PooledPages) : PooledPages[i].zeroed
    /\ \A b \in Bufs :
           (buffers[b].state = "live" /\ ~buffers[b].nozeroed) =>
               \A i \in 1 .. Len(buffers[b].sg_table) :
                   buffers[b].sg_table[i].page.zeroed

\* ------------------------------------------------------------ C26

\* the counts of a pool are the lengths of its lists, and its pages are of
\* its order
PoolConsistent(pool) ==
    /\ pool.low_count >= 0
    /\ pool.high_count >= 0
    /\ pool.low_count = Len(pool.low_items)
    /\ pool.high_count = Len(pool.high_items)
    /\ \A i \in 1 .. Len(PoolItems(pool)) :
           PoolItems(pool)[i].order = pool.order

\* C26: at every point of every interleaving of the turns of allocate,
\* release, refill and shrink, each of the four pools has the order and the
\* cache mode of its place in the heap, non-negative counts equal to the
\* lengths of its low and high lists, and only pages of its own order; and a
\* scan-only shrink of the pool at that point returns that count and leaves
\* the pool and the system as they are.
C26_PoolCountsMatchLists ==
    \A cached \in BOOLEAN, i \in 1 .. NUM_ORDERS :
        LET pool == PoolOf(HeapMem, cached, i)
            scan == ion_page_pool_shrink(pool, buddy, 0)
        IN  /\ pool.order = orders[i]
            /\ pool.cached = cached
            /\ PoolConsistent(pool)
            /\ scan.pool = pool
            /\ scan.buddy = buddy
            /\ scan.freed = Len(PoolItems(pool))

\* a call in its release loop has put its order-4 page into a pool and has
\* its order-0 page still to give back, while another call is in its
\* allocate loop
C26_Witness ==
    /\ \E b \in Bufs :
           /\ inflight[b].pc = "free"
           /\ Len(inflight[b].pages) = 1
           /\ inflight[b].pages[1].order = 0
    /\ \E b \in Bufs : inflight[b].pc = "alloc"
    /\ \E cached \in BOOLEAN :
           ion_page_pool_total(PoolOf(HeapMem, cached, LargeIdx), TRUE) = 1

\* ------------------------------------------------------------ C27

\* the pages that a pool holds after a step and did not hold before it
Added(before, after) ==
    SelectSeq(PoolItems(after),
              LAMBDA p : \A k \in 1 .. Len(PoolItems(before)) :
                             PoolItems(before)[k].addr # p.addr)

\* C27: in a sweep of the worker of a cache mode, a pool of that mode that is
\* not below its low watermark is left as it is; a pool that is below it,
\* when the system has the blocks of the pool's order that are missing, is
\* at its low watermark after the sweep; and the pages that the sweep adds
\* were free in the system before the sweep, are zeroed, are taken from the
\* system by the sweep, and no buffer is changed.
C27_SweepRefillsToWatermark ==
    [][ IsSweep(last') =>
          LET after == HeapMem'
              left  == buddy'
          IN  /\ buffers' = buffers
              /\ \A i \in 1 .. NUM_ORDERS :
                   LET pool == PoolOf(HeapMem, last'.buf = 1, i)
                       now  == PoolOf(after, last'.buf = 1, i)
                       new  == Added(pool, now)
                   IN  /\ ~pool_count_below_lowmark(pool) => now = pool
                       /\ ( /\ pool_count_below_lowmark(pool)
                            /\ Cardinality(FreeBlocks(buddy, pool.order))
                                   >= LowMark - ion_page_pool_total(pool, TRUE) )
                          => /\ ~pool_count_below_lowmark(now)
                             /\ ion_page_pool_total(now, TRUE) = LowMark
                       /\ Len(PoolItems(now)) = Len(PoolItems(pool)) + Len(new)
                       /\ \A k \in 1 .. Len(new) :
                              /\ PageFrames(new[k]) \subseteq buddy
                              /\ PageFrames(new[k]) \cap left = {}
                              /\ new[k].zeroed
                              /\ new[k].order = pool.order
      ]_vars

\* the worker of the cached pools has filled the empty order-4 pool with the
\* last free block of the system
C27_Witness ==
    /\ IsSweep(last)
    /\ last.buf = 1
    /\ ion_page_pool_total(cached_pools[LargeIdx], TRUE) = LowMark
    /\ FreeBlocks(buddy, orders[1]) = {}
    /\ ion_page_pool_total(uncached_pools[LargeIdx], TRUE) = 0
    /\ \A b \in Bufs : Len(TablePages(buffers[b])) < 2

\* ------------------------------------------------------------ C28

Min(a, b) == IF a <= b THEN a ELSE b

\* the frames of the first n pages of a list
FirstFrames(items, n) == UNION { PageFrames(items[i]) : i \in 1 .. n }

\* C28: a shrink of a pool with a target n > 0 evicts min(n, total) pages
\* and returns that number; it takes the first pages of the low list, and
\* pages of the high list only when the low list is left empty; the frames
\* of the evicted pages, and no others, pass to the system. An acquire takes
\* the head of the low list when the low list has a page, else the head of
\* the high list, and goes to the system only when both lists are empty.
C28_ShrinkAndAcquireLowListFirst ==
    [][ /\ (last'.op = "pool_shrink" /\ last' # last) =>
              LET n  == last'.buf
                  nl == Min(n, Len(lone_pool.low_items))
                  nh == Min(n - nl, Len(lone_pool.high_items))
              IN  /\ last'.ret = Min(n, ion_page_pool_total(lone_pool, TRUE))
                  /\ last'.ret = nl + nh
                  /\ last'.ret <= n
                  /\ nh > 0 => lone_pool'.low_items = << >>
                  /\ lone_pool'.low_items =
                         SubSeq(lone_pool.low_items, nl + 1,
                                Len(lone_pool.low_items))
                  /\ lone_pool'.high_items =
                         SubSeq(lone_pool.high_items, nh + 1,
                                Len(lone_pool.high_items))
                  /\ lone_pool'.low_count = lone_pool.low_count - nl
                  /\ lone_pool'.high_count = lone_pool.high_count - nh
                  /\ buddy' = buddy \cup FirstFrames(lone_pool.low_items, nl)
                                    \cup FirstFrames(lone_pool.high_items, nh)
                  /\ Cardinality(buddy')
                         = Cardinality(buddy) + last'.ret * Shl1(lone_pool.order)
        /\ (last'.op = "pool_alloc" /\ last' # last) =>
              IF lone_pool.low_items # << >>
              THEN /\ held'.page.addr = Head(lone_pool.low_items).addr
                   /\ lone_pool'.low_items = Tail(lone_pool.low_items)
                   /\ lone_pool'.high_items = lone_pool.high_items
                   /\ buddy' = buddy
              ELSE IF lone_pool.high_items # << >>
              THEN /\ held'.page.addr = Head(lone_pool.high_items).addr
                   /\ lone_pool'.high_items = Tail(lone_pool.high_items)
                   /\ lone_pool'.low_items = << >>
                   /\ buddy' = buddy
              ELSE /\ held'.page.from_buddy
                   /\ lone_pool' = lone_pool
                   /\ PageFrames(held'.page) \subseteq buddy
      ]_vars

\* a shrink with a target of 2 took the only page of the low list and one
\* of the two pages of the high list
C28_Witness ==
    /\ last.op = "pool_shrink"
    /\ last.buf = 2
    /\ last.ret = 2
    /\ lone_pool.low_items = << >>
    /\ Len(lone_pool.high_items) = 1
    /\ Cardinality(buddy) = PoolFrames - 1

\* ------------------------------------------------------------ C29

\* C29: a call of the heap's shrink with nr_to_scan > 0, run on its own,
\* returns the number by which the count of pooled pages over the four pools
\* went down in the call; that many pages, and no others, left the pools, and
\* their frames are free in the system after the call; the return value is
\* at most nr_to_scan; and no buffer is changed.
C29_ShrinkReturnsPagesFreed ==
    [][ (IsShrink(last') /\ last'.buf > 0) =>
          LET before == PooledPages
              after  == PooledPages'
              left   == buddy'
              gone   == SelectSeq(before, LAMBDA p : Occurrences(after, p) = 0)
          IN  /\ last'.ret = PooledTotal(HeapMem) - PooledTotal(HeapMem')
              /\ last'.ret = Len(before) - Len(after)
              /\ last'.ret = Len(gone)
              /\ last'.ret <= last'.buf
              /\ last'.ret >= 0
              /\ \A k \in 1 .. Len(gone) : PageFrames(gone[k]) \subseteq left
              /\ Cardinality(left) =
                     Cardinality(buddy) + SumBytes(gone) \div PAGE_SIZE
              /\ buffers' = buffers
      ]_vars

\* a shrink with a target of 2 found three pages in the pools, freed an
\* order-0 page of each cache mode and left the order-4 page
C29_Witness ==
    /\ IsShrink(last)
    /\ last.buf = 2
    /\ last.ret = 2
    /\ PooledTotal(HeapMem) = 1
    /\ Len(PooledPages) = 1
    /\ PooledPages[1].order = 4
    /\ Cardinality(FreeBlocks(buddy, 0)) = 2

\* ------------------------------------------------------------ C30

\* C30: an allocate that succeeds flushes, in its pass over the page list
\* after the loop, the pages of the buffer whose frames were free in the
\* system before the call and no others: a page that was in a pool before
\* the call is not flushed; every page of the buffer is of one kind or the
\* other; and in the returned buffer no page carries the from-buddy mark and
\* private_flags is 0.
C30_AllocateFlushesFreshPagesOnly ==
    [][ (IsAllocate(last') /\ last'.ret = 0) =>
          LET pooled == PooledAddrs
              pages  == TablePages(last'.buffer)
              fresh  == { pages[i].addr : i \in { j \in 1 .. Len(pages) :
                              PageFrames(pages[j]) \subseteq buddy } }
          IN  /\ flushed' = fresh
              /\ \A i \in 1 .. Len(pages) :
                    /\ pages[i].addr \in pooled => pages[i].addr \notin flushed'
                    /\ (pages[i].addr \in pooled) # (pages[i].addr \in fresh)
                    /\ ~pages[i].from_buddy
              /\ last'.buffer.private_flags = 0
              /\ buffers'[last'.buf].private_flags = 0
              /\ TablePages(buffers'[last'.buf]) = pages
      ]_vars

\* an allocate has returned a buffer of an order-4 page that came from a pool
\* and was not flushed and an order-0 page that came from the system and was
C30_Witness ==
    /\ IsAllocate(last)
    /\ last.ret = 0
    /\ Len(last.buffer.sg_table) = 2
    /\ TablePages(last.buffer)[1].order = 4
    /\ TablePages(last.buffer)[1].addr \notin flushed
    /\ TablePages(last.buffer)[2].order = 0
    /\ flushed = { TablePages(last.buffer)[2].addr }
    /\ TablePages(buffers[last.buf]) = TablePages(last.buffer)

\* ------------------------------------------------------------ C31

\* the call got past the checks of align and of the size against total ram
PastArgumentChecks(c) == IsAllocate(c) /\ c.exit \notin { "align", "totalram" }

\* C31: private_flags of the buffer is 0 on every return of an allocate that
\* got past the argument checks: on the return of success, on the return
\* after no page was found and on the return after the scatter table failed.
C31_PrivateFlagsClearedOnReturn ==
    [][ PastArgumentChecks(last') => last'.buffer.private_flags = 0 ]_vars

\* ------------------------------------------------------------ building pool sets

made_rest ==
    << buddy, uncached_pools, cached_pools, kworker, buffers,
       max_page_pool_size, pool_auto_refill_en, last, scen, inflight,
       lone_pool, held, ctx, flushed, task, life, client >>

\* the addresses the calls of ion_page_pool_create of one call of
\* ion_system_heap_create_pools can return: 0 for a failure, else the
\* address of an object that does not exist yet, no address twice
CreateResults ==
    { ids \in [1 .. NUM_ORDERS -> {0} \cup (PoolIds \ made.live)] :
        \A i, j \in 1 .. NUM_ORDERS : (i # j /\ ids[i] # 0) => ids[i] # ids[j] }

\* ion_system_heap_create calls ion_system_heap_create_pools on a pool array
\* of its zeroed heap
CreatePools(cached, ids) ==
    /\ \A i \in 1 .. NUM_ORDERS : made.pools[cached][i] = NoPoolObject
    /\ \E r \in { ion_system_heap_create_pools(made.pools[cached], made.live,
                                               cached, ids) } :
          made' = [made EXCEPT !.pools[cached] = r.pools,
                               !.live = r.live,
                               !.op = "create_pools",
                               !.cached = cached,
                               !.ids = ids,
                               !.ret = r.ret]
    /\ UNCHANGED made_rest

\* ion_system_heap_destroy_pools on a pool array of the heap
DestroyPools(cached) ==
    /\ \E r \in { ion_system_heap_destroy_pools(made.pools[cached], made.live) } :
          made' = [made EXCEPT !.pools[cached] = r.pools,
                               !.live = r.live,
                               !.op = "destroy_pools",
                               !.cached = cached,
                               !.ids = NoPools.ids,
                               !.ret = 0]
    /\ UNCHANGED made_rest

NextMade ==
    \/ \E cached \in BOOLEAN : \E ids \in CreateResults : CreatePools(cached, ids)
    \/ \E cached \in BOOLEAN : DestroyPools(cached)

SpecMade == Init /\ [][NextMade]_vars

\* ------------------------------------------------------------ C32

\* the pool objects in the slots of a pool array
SlotIds(pools) ==
    { pools[i].id : i \in { j \in 1 .. NUM_ORDERS : pools[j] # NoPoolObject } }

\* C32: a call of ion_system_heap_create_pools for one cache mode that
\* fails leaves every slot of that mode NULL and no pool object of the call
\* in existence (the pool objects that exist are those from before the
\* call); a call that succeeds leaves in slot i a pool of order orders[i]
\* and of that cache mode, a different object in every slot; either way the
\* pools of the other cache mode are as they were.
C32_CreatePoolsAllOrNothing ==
    [][ made'.op = "create_pools" =>
          LET c     == made'.cached
              now   == made'.pools[c]
          IN  /\ made'.ret \in { 0, -ENOMEM }
              /\ made'.ret # 0 =>
                    /\ \A i \in 1 .. NUM_ORDERS : now[i] = NoPoolObject
                    /\ made'.live = made.live
              /\ made'.ret = 0 =>
                    /\ \A i \in 1 .. NUM_ORDERS :
                          /\ now[i] # NoPoolObject
                          /\ now[i].order = orders[i]
                          /\ now[i].cached = c
                          /\ now[i].id \notin made.live
                    /\ Cardinality(SlotIds(now)) = NUM_ORDERS
                    /\ made'.live = made.live \cup SlotIds(now)
              /\ made'.pools[~c] = made.pools[~c]
              /\ made'.live = SlotIds(made'.pools[TRUE])
                                 \cup SlotIds(made'.pools[FALSE])
      ]_vars

\* ion_system_heap_create_pools for the cached pools failed at its second
\* ion_page_pool_create, after the first had made a pool: the slots are
\* NULL, that pool is gone and the uncached pools are there
C32_Witness ==
    /\ made.op = "create_pools"
    /\ made.cached
    /\ made.ret = -ENOMEM
    /\ made.ids[1] # 0
    /\ made.ids[2] = 0
    /\ made.ids[1] \notin made.live
    /\ \A i \in 1 .. NUM_ORDERS : made.pools[TRUE][i] = NoPoolObject
    /\ \A i \in 1 .. NUM_ORDERS : made.pools[FALSE][i].order = orders[i]
    /\ Cardinality(made.live) = NUM_ORDERS

\* ------------------------------------------------------------ C33

\* the addresses of the pages in the pool of a cache mode and index
PoolAddrs(m, cached, i) ==
    LET items == PoolItems(PoolOf(m, cached, i))
    IN  { items[k].addr : k \in 1 .. Len(items) }

C34_ReleaseDecidesOnce ==
    [][ \A b \in Bufs :
          /\ (inflight[b].pc = "idle" /\ inflight'[b].pc = "free") =>
                /\ ShrinkerFree(inflight'[b].buffer) =
                       (PooledTotal(HeapMem) > max_page_pool_size)
                /\ ShrinkerFree(buffers'[b]) = ShrinkerFree(inflight'[b].buffer)
          /\ (inflight[b].pc = "free" /\ inflight[b].pages # << >>) =>
                /\ inflight'[b].pc = "free"
                /\ ShrinkerFree(inflight'[b].buffer) = ShrinkerFree(inflight[b].buffer)
                /\ ShrinkerFree(buffers'[b]) = ShrinkerFree(inflight[b].buffer)
                /\ inflight'[b].pages # inflight[b].pages =>
                      LET page  == Head(inflight[b].pages)
                          pools == PooledPages'
                          free  == buddy'
                      IN  IF ShrinkerFree(inflight[b].buffer)
                          THEN /\ PageFrames(page) \subseteq free
                               /\ Occurrences(pools, page) = 0
                          ELSE /\ PageFrames(page) \cap free = {}
                               /\ Occurrences(pools, page) = 1
      ]_vars

\* a release read a pooled total above max_page_pool_size and marked its
\* buffer for the system; before its walk reached the page another call
\* emptied the pools, so that the total is no longer above the limit
C34_Witness ==
    \E b \in Bufs :
        /\ inflight[b].pc = "free"
        /\ Len(inflight[b].pages) = 1
        /\ ShrinkerFree(inflight[b].buffer)
        /\ PooledTotal(HeapMem) <= max_page_pool_size

\* ------------------------------------------------------------ C35

\* C35: an allocate that fails after the argument checks, with no other call
\* running, puts every page it took from a pool back into a pool, however
\* many pages it took fresh from the system: every page that was in a pool
\* before the call is in a pool after it, and the pooled total after the
\* call is at least the pooled total before it.
C35_FailedAllocateKeepsPooledPages ==
    [][ (PastArgumentChecks(last') /\ last'.ret # 0) =>
          LET before == PooledPages
              after  == PooledPages'
          IN  /\ \A k \in 1 .. Len(before) : Occurrences(after, before[k]) = 1
              /\ PooledTotal(HeapMem') >= PooledTotal(HeapMem)
      ]_vars

\* ------------------------------------------------------------ C36

\* the heap with its workers and an owner that may stop them, under a
\* scheduler that lets every thread that can run take its next step
SpecStopFair ==
    SpecStop /\ WF_vars(WorkerStep(0)) /\ WF_vars(WorkerStep(1))

\* C36: a stop request to a worker is never lost and is acknowledged from
\* every state of the worker: once kthread_stop has set the stop flag the
\* flag stays set, the worker does not go to sleep again and does not begin
\* a sweep other than the one that its wake from sleep begins, and it
\* eventually leaves ion_sys_heap_worker.
C36_StopEventuallyAcknowledged ==
    /\ [][ \A c \in {0, 1} :
             task[c].should_stop =>
                /\ task'[c].should_stop
                /\ task[c].pc # "asleep" => task'[c].pc # "asleep"
                /\ task'[c].pc = "sweep" => task[c].pc \in { "sweep", "asleep" }
                /\ task[c].pc = "exited" => task'[c].pc = "exited"
         ]_vars
    /\ \A c \in {0, 1} : task[c].should_stop ~> task[c].pc = "exited"

\* a worker asleep in schedule() has been told to stop: the stop flag is set
\* and kthread_stop has set its state to TASK_RUNNING
C36_Witness ==
    \E c \in {0, 1} :
        /\ task[c].pc = "asleep"
        /\ task[c].should_stop
        /\ task[c].state = "TASK_RUNNING"
        /\ task[1 - c].pc = "sweep"
        /\ task[1 - c].should_stop

\* ------------------------------------------------------------ C37

\* the frames of the pages of a list, a frame counted once for every page
\* that covers it
FrameCount(pages) == SumBytes(pages) \div PAGE_SIZE

\* the frames of the pages of a list
FramesOf(pages) == UNION { PageFrames(pages[i]) : i \in 1 .. Len(pages) }

Configured(order) == order_to_index(order) \in 1 .. NUM_ORDERS

\* C38: BUG() in order_to_index is not reached. Every order of the orders
\* table, which are the orders allocate passes, has its own index; every
\* page of a buffer, and every page on the list of a call that is running,
\* which are the pages release and the unwind pass, has an order of the
\* table; and every pool holds pages of its own order only, at the index
\* of that order.
C38_OrderToIndexNeverFails ==
    /\ \A i \in 1 .. NUM_ORDERS : order_to_index(orders[i]) = i
    /\ \A b \in Bufs :
          /\ \A k \in 1 .. Len(buffers[b].sg_table) :
                Configured(buffers[b].sg_table[k].page.order)
          /\ \A k \in 1 .. Len(inflight[b].pages) :
                Configured(inflight[b].pages[k].order)
    /\ \A c \in BOOLEAN : \A i \in 1 .. NUM_ORDERS :
          LET pool  == PoolOf(HeapMem, c, i)
              items == PoolItems(pool)
          IN  /\ pool.order = orders[i]
              /\ \A k \in 1 .. Len(items) : items[k].order = orders[i]

\* a release walks over a buffer of a block and a page, and another call
\* that allocates holds a page on its list: free_buffer_page and
\* alloc_buffer_page are about to call order_to_index with orders 4 and 0
C38_Witness ==
    \E b, d \in Bufs :
        /\ inflight[b].pc = "free"
        /\ Len(inflight[b].pages) = 1
        /\ inflight[b].pages[1].order = 0
        /\ PAGE_ALIGN(inflight[b].buffer.size) = 17 * PAGE_SIZE
        /\ inflight[d].pc = "alloc"
        /\ Len(inflight[d].pages) = 1
        /\ inflight[d].pages[1].order = 4

\* ------------------------------------------------------------ the ioctl dispatcher

client_rest ==
    << buddy, uncached_pools, cached_pools, kworker, buffers,
       max_page_pool_size, pool_auto_refill_en, last, scen, inflight,
       lone_pool, held, ctx, flushed, task, life, made >>

\* one call of ion_ioctl on the client
Ioctl(in) ==
    /\ \E r \in { ion_ioctl(client.k, in) } :
          client' = [k |-> r.k, in |-> in, ret |-> r.ret, handle |-> r.handle,
                     frees |-> r.frees, puts |-> r.puts]
    /\ UNCHANGED client_rest

NextIoctl == \E in \in IoctlInputs : Ioctl(in)

SpecIoctl == Init /\ [][NextIoctl]_vars

\* ------------------------------------------------------------ C39

\* C39: an ION_IOC_ALLOC whose result copy_to_user cannot copy back calls
\* ion_free and ion_handle_put on the handle it made and returns -EFAULT,
\* after which that handle does not exist and the client's handles are
\* those from before the call; an ION_IOC_ALLOC that returns an error
\* leaves no handle behind; and every ION_IOC_ALLOC in which __ion_alloc
\* made a handle calls ion_handle_put on it exactly once, no reference
\* being dropped on a destroyed handle: after a call that succeeds the
\* handle has the client's reference and no other.
C39_FailedAllocIoctlLeavesNoHandle ==
    [][ client'.in.cmd = "ION_IOC_ALLOC" =>
          LET h == client'.handle
          IN  /\ h = 0 =>
                    /\ client'.ret # 0
                    /\ client'.puts = 0
                    /\ client'.frees = 0
              /\ h # 0 =>
                    /\ client.k.ref[h] = 0
                    /\ client'.puts = 1
                    /\ IF client'.in.to_ok
                       THEN /\ client'.ret = 0
                            /\ client'.frees = 0
                            /\ client'.k.ref = [client.k.ref EXCEPT ![h] = 1]
                       ELSE /\ client'.ret = -EFAULT
                            /\ client'.frees = 1
                            /\ client'.k.ref[h] = 0
              /\ client'.ret # 0 => client'.k.ref = client.k.ref
              /\ client'.k.uaf = client.k.uaf
      ]_vars

\* the client has a handle from an earlier call; an ION_IOC_ALLOC made a
\* second handle, copy_to_user failed, and the call freed the handle,
\* dropped its reference and returned -EFAULT: the second handle is gone
C39_Witness ==
    /\ client.in.cmd = "ION_IOC_ALLOC"
    /\ client.in.from_ok
    /\ ~client.in.to_ok
    /\ client.handle = 2
    /\ client.ret = -EFAULT
    /\ client.frees = 1
    /\ client.puts = 1
    /\ client.k.ref[2] = 0
    /\ client.k.ref[1] = 1
    /\ ~client.k.uaf

====
